---- MODULE Spec2Model ----
(***************************************************************************)
(* Keyword extraction and resume scoring of candidate-profiling            *)
(* (utils/textProcessing.ts), with the upload handlers of App.tsx.         *)
(*                                                                         *)
(* Strings are TLA+ strings read as sequences of characters (Len, SubSeq,  *)
(* \o).  Numbers that the code keeps as floating-point fractions are kept  *)
(* as exact integers: weights and importances in thousandths, ratios as    *)
(* numerator/denominator pairs.  Rounding is to the nearest integer; at an *)
(* exact half the double of the code may lie on either side (halfUp).      *)
(***************************************************************************)
EXTENDS Integers, Sequences, FiniteSets, TLC

-----------------------------------------------------------------------------
(* Characters and elementary string functions (String.prototype methods).  *)

CharAt(s, i) == SubSeq(s, i, i)

UpperLetters == "ABCDEFGHIJKLMNOPQRSTUVWXYZ"
LowerLetters == "abcdefghijklmnopqrstuvwxyz"
DigitChars == "0123456789"

CharsOf(s) == { CharAt(s, i) : i \in 1..Len(s) }

LowerSet == CharsOf(LowerLetters)
UpperSet == CharsOf(UpperLetters)
DigitSet == CharsOf(DigitChars)

\* \s of a JavaScript regular expression, restricted to ASCII
WhitespaceSet == {" ", "\t", "\n", "\r", "\f"}

\* \w of a JavaScript regular expression
WordCharSet == LowerSet \cup UpperSet \cup DigitSet \cup {"_"}

toLowerChar(c) ==
  IF c \in UpperSet
    THEN CharAt(LowerLetters, CHOOSE i \in 1..Len(UpperLetters) : CharAt(UpperLetters, i) = c)
    ELSE c

\* text.toLowerCase(), by halves
RECURSIVE toLowerCase(_)
toLowerCase(s) ==
  IF Len(s) = 0 THEN ""
  ELSE IF Len(s) = 1 THEN toLowerChar(s)
  ELSE LET mid == Len(s) \div 2
       IN toLowerCase(SubSeq(s, 1, mid)) \o toLowerCase(SubSeq(s, mid + 1, Len(s)))

\* the least position from `from` on whose character is in (resp. not in)
\* `chars`; Len(s) + 1 when there is none
firstIn(s, from, chars) ==
  LET found == { i \in from..Len(s) : CharAt(s, i) \in chars }
  IN IF found = {} THEN Len(s) + 1 ELSE CHOOSE i \in found : \A j \in found : i <= j

firstNotIn(s, from, chars) ==
  LET found == { i \in from..Len(s) : CharAt(s, i) \notin chars }
  IN IF found = {} THEN Len(s) + 1 ELSE CHOOSE i \in found : \A j \in found : i <= j

lastNotIn(s, chars) ==
  LET found == { i \in 1..Len(s) : CharAt(s, i) \notin chars }
  IN IF found = {} THEN 0 ELSE CHOOSE i \in found : \A j \in found : i >= j

\* line.trim()
trim(s) == SubSeq(s, firstNotIn(s, 1, WhitespaceSet), lastNotIn(s, WhitespaceSet))

\* The matches of /[start][cont]*/g from position `from` on: each match
\* begins at the next character of `start` and takes the longest run of `cont`
RECURSIVE matchRuns(_, _, _, _)
matchRuns(s, from, start, cont) ==
  LET begin == firstIn(s, from, start)
      end == firstNotIn(s, begin, cont)
  IN IF begin > Len(s) THEN <<>>
     ELSE <<SubSeq(s, begin, end - 1)>> \o matchRuns(s, end, start, cont)

\* s.split(sep) for a one-character separator: the pieces between
\* separators, empty pieces included
RECURSIVE splitOn(_, _)
splitOn(s, sep) ==
  LET at == firstIn(s, 1, {sep})
  IN IF at > Len(s) THEN <<s>>
     ELSE <<SubSeq(s, 1, at - 1)>> \o splitOn(SubSeq(s, at + 1, Len(s)), sep)

RECURSIVE joinWithSpace(_)
joinWithSpace(parts) ==
  IF parts = <<>> THEN ""
  ELSE IF Len(parts) = 1 THEN parts[1]
  ELSE parts[1] \o " " \o joinWithSpace(Tail(parts))

\* array.forEach / reduce: Step(i, acc) for i = lo, ..., hi in turn, starting
\* from acc.  The range is walked by halves, the first half before the second.
RECURSIVE Fold(_, _, _, _)
Fold(Step(_, _), lo, hi, acc) ==
  IF lo > hi THEN acc
  ELSE IF lo = hi THEN Step(lo, acc)
  ELSE LET mid == (lo + hi) \div 2
           left == Fold(Step, lo, mid, acc)
       IN IF left = left THEN Fold(Step, mid + 1, hi, left) ELSE left

\* array.filter(Keep): the kept elements in their order
SeqFilter(seq, Keep(_)) ==
  Fold(LAMBDA i, acc : IF Keep(seq[i]) THEN Append(acc, seq[i]) ELSE acc,
       1, Len(seq), <<>>)

\* array.map(Fn)
SeqMap(seq, Fn(_)) ==
  Fold(LAMBDA i, acc : Append(acc, Fn(seq[i])), 1, Len(seq), <<>>)

Range(seq) == { seq[i] : i \in 1..Len(seq) }

sumOf(values) == Fold(LAMBDA i, acc : acc + values[i], 1, Len(values), 0)

productOf(values) == Fold(LAMBDA i, acc : acc * values[i], 1, Len(values), 1)

Min(a, b) == IF a <= b THEN a ELSE b
Max(a, b) == IF a >= b THEN a ELSE b

-----------------------------------------------------------------------------
(* Word lists of textProcessing.ts                                         *)

STOP_WORDS ==
  {
    "and", "the", "for", "with", "that", "have", "this", "from",
    "your", "will", "are", "you", "our", "per", "who", "any",
    "all", "but", "its", "was", "were", "has", "had", "can",
    "may", "must", "into", "able", "make", "made", "than", "over",
    "each", "via", "very", "much", "also", "ever", "every", "then",
    "once", "keep", "kept", "been", "being", "through", "within", "between",
    "among", "upon", "onto"
  }

CONNECTOR_WORDS ==
  {
    "and", "or", "to", "of", "in", "on", "for", "with"
  }

GENERIC_TERMS ==
  {
    "job", "jobs", "description", "descriptions", "sample", "company", "companies", "organization",
    "organizations", "department", "departments", "team", "teams", "employee", "employees", "employment",
    "human", "resource", "resources", "information", "detail", "details", "participation", "participate",
    "candidate", "candidates", "applicant", "applicants", "intern", "interns", "internship", "role",
    "roles", "position", "positions", "title", "titles", "sample job", "job description", "job title",
    "reports", "report", "gain"
  }

SYNONYM_GROUPS ==
  <<
    << "project management", "program management", "project manager", "pm" >>,
    << "stakeholder management", "stakeholder engagement" >>,
    << "change management", "organizational change" >>,
    << "people management", "team leadership", "direct reports" >>,
    << "react", "react.js", "reactjs", "react native" >>,
    << "node", "node.js", "nodejs" >>,
    << "customer success", "client success", "account management" >>,
    << "business development", "sales development", "bd" >>,
    << "data analysis", "data analytics", "data analyst" >>,
    << "machine learning", "ml", "ml ops", "mlops" >>,
    << "artificial intelligence", "ai" >>,
    << "product management", "product manager", "pm (product)" >>,
    << "user experience", "ux" >>,
    << "user interface", "ui" >>,
    << "quality assurance", "qa", "software testing" >>,
    << "search engine optimization", "seo" >>,
    << "pay per click", "ppc" >>,
    << "human resources", "hr" >>,
    << "talent acquisition", "technical recruiting", "recruitment" >>
  >>

Tiers == <<"core", "responsibility", "preferred", "general">>
TierSet == {"core", "responsibility", "preferred", "general"}

\* SECTION_WEIGHTS, in thousandths (1.2, 1, 0.8, 0.7)
SECTION_WEIGHTS ==
  [core |-> 1200, responsibility |-> 1000, preferred |-> 800, general |-> 700]

-----------------------------------------------------------------------------
(* State.  SYNONYM_LOOKUP is the module-level Map of textProcessing.ts,    *)
(* built once when the module is loaded; the other variables hold the      *)
(* arguments and the result of the call in progress.                       *)

VARIABLES
  SYNONYM_LOOKUP,   \* Map<string, SynonymInfo>
  halfUp,           \* whether a double that is exactly halfway is rounded upward
  phase,            \* which entry point is exercised, and whether it has returned
  jdText,           \* extractKeywords: text
  limit,            \* extractKeywords: limit
  jdRanked,         \* extractKeywords: the local `keywords` (all candidates, sorted)
  jdKeywords,       \* extractKeywords: the returned list
  resumeText,       \* analyzeResume: resumeText
  keywords,         \* analyzeResume: keywords
  analysis,         \* analyzeResume: the returned ResumeAnalysis
  calls,            \* the calls made so far, with their results
  jdFileName,          \* App: useState<string>('')
  jdDocumentText,      \* App: useState<string>('')
  interviewQuestions,  \* App: useState<InterviewQuestion[]>([])
  resumeInsights,      \* App: useState<ResumeInsightState>(null)
  processingJD,        \* App: useState(false)
  processingResume,    \* App: useState(false)
  usingAISource,       \* App: useState(false)
  errorMessage,        \* App: useState<string | null>(null)
  jdListId,            \* App: which array object jdKeywords holds (0: the initial [])
  pending,             \* App: the handler invocations that wait at an await
  started,             \* App: how many times a handler has been called
  lastEvent,           \* App: the handler step taken last
  openAiKey,           \* server: whether OPENAI_API_KEY is set
  inFlight,            \* server: the requests whose handler waits at an await
  answered,            \* server: the request answered last, with its response
  arrived              \* server: how many requests have arrived

\* jdKeywords is also the state useState<KeywordInsight[]>([]) of App.  A
\* nullable value is a sequence: <<>> for null, <<v>> for the value v.
appVars ==
  <<jdFileName, jdDocumentText, interviewQuestions, resumeInsights,
    processingJD, processingResume, usingAISource, errorMessage,
    jdListId, pending, started, lastEvent>>

serverVars == <<openAiKey, inFlight, answered, arrived>>

vars ==
  <<SYNONYM_LOOKUP, halfUp, phase, jdText, limit, jdRanked, jdKeywords,
    resumeText, keywords, analysis, calls, appVars, serverVars>>

\* lastEvent names the handler that ran last, the step it took, the
\* invocation (as it waited before the step) and what fetch gave it
Event(handler, step, upload, reply) ==
  [handler |-> handler, step |-> step, upload |-> upload, reply |-> reply]

NoEvent == Event("none", "none", <<>>, <<>>)

\* the initial values of the state of App (the useState calls); nothing waits
AppInitial ==
  /\ jdFileName = ""
  /\ jdDocumentText = ""
  /\ interviewQuestions = <<>>
  /\ resumeInsights = <<>>
  /\ processingJD = FALSE
  /\ processingResume = FALSE
  /\ usingAISource = FALSE
  /\ errorMessage = <<>>
  /\ jdListId = 0
  /\ pending = {}
  /\ started = 0
  /\ lastEvent = NoEvent

\* the server with its key set and no request yet
ServerInitial ==
  /\ openAiKey = TRUE
  /\ inFlight = {}
  /\ answered = <<>>
  /\ arrived = 0

\* Math.round and toFixed applied to the double that stands for num/den
\* (den > 0, num >= 0): the nearest integer. The model computes with exact
\* fractions; where the exact value is halfway between two integers the
\* double may fall on either side of it, so the outcome there is halfUp.
RoundDiv(num, den) ==
  IF 2 * (num % den) = den
  THEN (num \div den) + (IF halfUp THEN 1 ELSE 0)
  ELSE (2 * num + den) \div (2 * den)

-----------------------------------------------------------------------------
(* Normalisation and the synonym table                                     *)

NormalizeKeep == LowerSet \cup DigitSet \cup {"+", "#", "/", "-"}

\* term.toLowerCase().replace(/[^a-z0-9+#\/\s-]+/g, ' ').replace(/\s+/g, ' ').trim():
\* every run of characters outside the kept class (whitespace included)
\* becomes one space, and the spaces at the two ends are dropped
normalizeTerm(term) ==
  joinWithSpace(matchRuns(toLowerCase(term), 1, NormalizeKeep, NormalizeKeep))

\* new Map()
EmptyMap == [k \in {} |-> 0]

\* Array.from(new Set(values)): the first occurrence of each value
uniqueSeq(values) ==
  Fold(LAMBDA i, acc : IF values[i] \in Range(acc) THEN acc ELSE Append(acc, values[i]),
       1, Len(values), <<>>)

\* lookup.set(key, value)
mapSet(map, key, value) ==
  IF key \in DOMAIN map THEN [map EXCEPT ![key] = value] ELSE (key :> value) @@ map

\* the body of SYNONYM_GROUPS.forEach in buildSynonymMap
addSynonymGroup(group, lookup) ==
  LET normalizedGroup == SeqFilter(SeqMap(group, normalizeTerm), LAMBDA t : t # "")
  IN IF group = <<>> \/ normalizedGroup = <<>> THEN lookup
     ELSE
       LET canonical == normalizedGroup[1]
           uniqueVariants == uniqueSeq(normalizedGroup)
           info == [canonical |-> canonical, variants |-> uniqueVariants]
       IN Fold(LAMBDA v, acc : mapSet(acc, uniqueVariants[v], info),
               1, Len(uniqueVariants), lookup)

buildSynonymMap ==
  Fold(LAMBDA g, acc : addSynonymGroup(SYNONYM_GROUPS[g], acc),
       1, Len(SYNONYM_GROUPS), EmptyMap)

lookupHas(term) == term \in DOMAIN SYNONYM_LOOKUP

getCanonicalKey(term) ==
  LET normalized == normalizeTerm(term)
  IN IF normalized = "" THEN ""
     ELSE IF lookupHas(normalized) THEN SYNONYM_LOOKUP[normalized].canonical
     ELSE normalized

-----------------------------------------------------------------------------
(* Tokens and phrases                                                      *)

TokenStart == LowerSet \cup DigitSet \cup {"+", "#"}
TokenCont == TokenStart \cup {"-", "/"}

\* text.toLowerCase().match(/[a-z0-9+#][a-z0-9+#\-\/]*/g) ?? []
\* tokenize without the toLowerCase(): capital letters separate tokens
tokenize_caseSensitive(text) == matchRuns(text, 1, TokenStart, TokenCont)

tokenize(text) == matchRuns(toLowerCase(text), 1, TokenStart, TokenCont)

isFillerWord(token) ==
  IF lookupHas(token) THEN FALSE
  ELSE token \in STOP_WORDS \/ token \in GENERIC_TERMS \/ token \in CONNECTOR_WORDS

shouldKeepToken(token) ==
  IF Len(token) < 3 THEN FALSE
  ELSE IF isFillerWord(token) THEN FALSE
  ELSE TRUE

\* buildPhrase(tokens, start, length); start counts from 1 here.  The null
\* result is the empty string: every caller only tests the result's truth.
buildPhrase(tokens, start, length) ==
  LET last == Min(start + length - 1, Len(tokens))
      slice == SubSeq(tokens, start, last)
      meaningfulTokens == SeqFilter(slice, LAMBDA t : ~isFillerWord(t))
      requiredMeaningful == IF length = 2 THEN 1 ELSE Min(2, length)
  IN IF Len(slice) < length THEN ""
     ELSE IF isFillerWord(slice[1]) \/ isFillerWord(slice[Len(slice)]) THEN ""
     ELSE IF meaningfulTokens = <<>> \/ Len(meaningfulTokens) < requiredMeaningful THEN ""
     ELSE IF \A i \in 1..Len(slice) :
               slice[i] \in STOP_WORDS /\ slice[i] \notin CONNECTOR_WORDS THEN ""
     ELSE trim(joinWithSpace(slice))

isGenericTerm(term) ==
  LET tokens == SeqFilter(splitOn(term, " "), LAMBDA t : t # "")
      joined == joinWithSpace(tokens)
      fillerCount == Len(SeqFilter(tokens, isFillerWord))
  IN IF tokens = <<>> THEN TRUE
     ELSE IF lookupHas(joined) THEN FALSE
     ELSE IF joined \in GENERIC_TERMS THEN TRUE
     ELSE IF fillerCount = Len(tokens) THEN TRUE
     ELSE IF Len(tokens) > 1 /\ 10 * fillerCount >= 6 * Len(tokens) THEN TRUE
     ELSE FALSE

\* counts.set(key, (counts.get(key) ?? 0) + 1)
countAdd(counts, key) ==
  IF key \in DOMAIN counts
    THEN [counts EXCEPT ![key] = @ + 1]
    ELSE (key :> 1) @@ counts

\* counts.get(key) ?? 1
countGet_defaultOne(counts, key) == IF key \in DOMAIN counts THEN counts[key] ELSE 1

countGet(counts, key) == IF key \in DOMAIN counts THEN counts[key] ELSE 0

\* the loop body of buildNgramCounts; index counts from 1 here
ngramStep(tokens, size, index, counts) ==
  IF size = 1 /\ ~shouldKeepToken(tokens[index]) THEN counts
  ELSE IF size > 1
    THEN LET phrase == buildPhrase(tokens, index, size)
         IN IF phrase = "" THEN counts
            ELSE countAdd(counts, getCanonicalKey(phrase))
  ELSE countAdd(counts, getCanonicalKey(tokens[index]))

buildNgramCounts(tokens, size) ==
  Fold(LAMBDA index, counts : ngramStep(tokens, size, index, counts),
       1, Len(tokens) - size + 1, EmptyMap)

-----------------------------------------------------------------------------
(* Segmentation: splitIntoFragments, detectHeadingSection,                 *)
(* detectInlinePriority                                                    *)

\* A pattern is a sequence of elements [chars |-> set of characters,
\* optional |-> BOOLEAN]; matchAt says whether it matches s from position i.
Lit(str) == [i \in 1..Len(str) |-> [chars |-> {CharAt(str, i)}, optional |-> FALSE]]
OptDashOrSpace == <<[chars |-> WhitespaceSet \cup {"-"}, optional |-> TRUE]>>

RECURSIVE matchAt(_, _, _)
matchAt(s, i, pat) ==
  IF pat = <<>> THEN {i}
  ELSE (IF i <= Len(s) /\ CharAt(s, i) \in Head(pat).chars
          THEN matchAt(s, i + 1, Tail(pat)) ELSE {})
       \cup (IF Head(pat).optional THEN matchAt(s, i, Tail(pat)) ELSE {})

\* regex.test(line) for an unanchored alternation, case-insensitive
testAny(line, alternatives) ==
  LET s == toLowerCase(line)
  IN \E a \in alternatives : \E i \in 1..(Len(s) + 1) : matchAt(s, i, a) # {}

isWordCharAt(s, i) == i >= 1 /\ i <= Len(s) /\ CharAt(s, i) \in WordCharSet

\* \b before position i of s
wordBoundary(s, i) == isWordCharAt(s, i - 1) # isWordCharAt(s, i)

\* regex.test(line) for /\b(a|b|...)\b/i
testAnyWord(line, alternatives) ==
  LET s == toLowerCase(line)
  IN \E a \in alternatives : \E i \in 1..(Len(s) + 1) :
       /\ wordBoundary(s, i)
       /\ \E j \in matchAt(s, i, a) : wordBoundary(s, j)

\* /(must[-\s]?have|requirements?|qualifications?|skills)/i and the two others.
\* A trailing optional letter never decides an unanchored test and is left out.
HEADING_PATTERNS ==
  << [alternatives |-> { Lit("must") \o OptDashOrSpace \o Lit("have"),
                         Lit("requirement"), Lit("qualification"), Lit("skills") },
      section |-> "core"],
     [alternatives |-> { Lit("responsibilit"), Lit("what you will do"),
                         Lit("day") \o OptDashOrSpace \o Lit("to") \o OptDashOrSpace \o Lit("day") },
      section |-> "responsibility"],
     [alternatives |-> { Lit("preferred"), Lit("nice to have"), Lit("bonus"),
                         Lit("good to have") },
      section |-> "preferred"] >>

\* /\b(must|required|required experience)\b/i, /\b(preferred|nice to have|bonus)\b/i
INLINE_PRIORITY_PATTERNS ==
  << [alternatives |-> { Lit("must"), Lit("required"), Lit("required experience") },
      section |-> "core"],
     [alternatives |-> { Lit("preferred"), Lit("nice to have"), Lit("bonus") },
      section |-> "preferred"] >>

MaxHeadingLength == 80

\* a detection in which the last pattern that matches decides
detectHeadingSection_lastMatch(line) ==
  IF Len(line) > MaxHeadingLength THEN "none"
  ELSE IF \E p \in 1..Len(HEADING_PATTERNS) : testAny(line, HEADING_PATTERNS[p].alternatives)
    THEN HEADING_PATTERNS[
           CHOOSE p \in 1..Len(HEADING_PATTERNS) :
             /\ testAny(line, HEADING_PATTERNS[p].alternatives)
             /\ \A q \in (p + 1)..Len(HEADING_PATTERNS) :
                  ~testAny(line, HEADING_PATTERNS[q].alternatives)
         ].section
  ELSE "none"

\* The null result is "none".
detectHeadingSection(line) ==
  IF Len(line) > MaxHeadingLength THEN "none"
  ELSE IF \E p \in 1..Len(HEADING_PATTERNS) : testAny(line, HEADING_PATTERNS[p].alternatives)
    THEN HEADING_PATTERNS[
           CHOOSE p \in 1..Len(HEADING_PATTERNS) :
             /\ testAny(line, HEADING_PATTERNS[p].alternatives)
             /\ \A q \in 1..(p - 1) : ~testAny(line, HEADING_PATTERNS[q].alternatives)
         ].section
  ELSE "none"

inlineMatches(line) ==
  { p \in 1..Len(INLINE_PRIORITY_PATTERNS) :
      testAnyWord(line, INLINE_PRIORITY_PATTERNS[p].alternatives) }

\* a detection that finds no inline marker
detectInlinePriority_none(line) == "none"

detectInlinePriority(line) ==
  IF inlineMatches(line) = {} THEN "none"
  ELSE INLINE_PRIORITY_PATTERNS[
         CHOOSE p \in inlineMatches(line) : \A q \in inlineMatches(line) : p <= q
       ].section

\* text.split(/\r?\n/): a "\r" just before the "\n" goes with the separator
splitLines(text) ==
  SeqMap(splitOn(text, "\n"),
         LAMBDA piece : IF piece # "" /\ CharAt(piece, Len(piece)) = "\r"
                          THEN SubSeq(piece, 1, Len(piece) - 1) ELSE piece)

\* a step in which an inline marker also becomes the tier in force
fragmentStep_stickyInline(line, acc) ==
  LET headingSection == detectHeadingSection(line)
      inlineSection == detectInlinePriority(line)
  IN IF headingSection # "none"
       THEN [acc EXCEPT !.activeSection = headingSection]
       ELSE [acc EXCEPT !.activeSection = IF inlineSection # "none" THEN inlineSection
                                          ELSE acc.activeSection,
                        !.fragments =
               Append(@, [id |-> Len(@),
                          content |-> line,
                          section |-> IF inlineSection # "none" THEN inlineSection
                                      ELSE acc.activeSection])]

\* the body of lines.forEach in splitIntoFragments; the two locals
\* activeSection and fragments are carried in `acc`
fragmentStep(line, acc) ==
  LET headingSection == detectHeadingSection(line)
      inlineSection == detectInlinePriority(line)
  IN IF headingSection # "none"
       THEN [acc EXCEPT !.activeSection = headingSection]
       ELSE [acc EXCEPT !.fragments =
               Append(@, [id |-> Len(@),
                          content |-> line,
                          section |-> IF inlineSection # "none" THEN inlineSection
                                      ELSE acc.activeSection])]

splitIntoFragments(text) ==
  LET lines == SeqFilter(SeqMap(splitLines(text), trim), LAMBDA l : l # "")
  IN Fold(LAMBDA i, acc : fragmentStep(lines[i], acc), 1, Len(lines),
          [activeSection |-> "general", fragments |-> <<>>]).fragments

-----------------------------------------------------------------------------
(* Keyword extraction: collectTokens, collectPhrases, recordTerm,          *)
(* extractKeywords.  The statsMap is the sequence of its values in         *)
(* insertion order (a Map iterates in insertion order).                    *)

statsIndex(statsMap, canonical) ==
  IF \E i \in 1..Len(statsMap) : statsMap[i].canonical = canonical
    THEN CHOOSE i \in 1..Len(statsMap) : statsMap[i].canonical = canonical
    ELSE 0

\* surfaces.set(term, (surfaces.get(term) ?? 0) + 1) on an insertion-ordered Map
surfaceAdd(surfaces, term) ==
  IF \E i \in 1..Len(surfaces) : surfaces[i].term = term
    THEN [i \in 1..Len(surfaces) |->
            IF surfaces[i].term = term
              THEN [surfaces[i] EXCEPT !.count = @ + 1]
              ELSE surfaces[i]]
    ELSE Append(surfaces, [term |-> term, count |-> 1])

\* recordTerm from `const synonymInfo = SYNONYM_LOOKUP.get(normalized)` on
recordCanonical(normalized, term, source, section, weight, fragmentId, statsMap) ==
  LET known == lookupHas(normalized)
      canonical == IF known THEN SYNONYM_LOOKUP[normalized].canonical ELSE normalized
      variants == (IF known THEN Range(SYNONYM_LOOKUP[normalized].variants)
                   ELSE {canonical}) \cup {normalized}
      index == statsIndex(statsMap, canonical)
      existing ==
        IF index > 0 THEN statsMap[index]
        ELSE [canonical |-> canonical,
              occurrences |-> 0,
              weightedOccurrences |-> 0,
              sectionWeights |-> [core |-> 0, responsibility |-> 0,
                                  preferred |-> 0, general |-> 0],
              source |-> source,
              variants |-> {},
              surfaces |-> <<>>,
              fragmentIds |-> {}]
      stats ==
        [existing EXCEPT
           !.occurrences = @ + 1,
           !.weightedOccurrences = @ + weight,
           !.sectionWeights[section] = @ + weight,
           !.source = IF existing.source = "phrase" \/ source = "phrase"
                        THEN "phrase" ELSE "term",
           !.variants = @ \cup variants,
           !.surfaces = surfaceAdd(@, term),
           !.fragmentIds = @ \cup {fragmentId}]
  IN IF index > 0 THEN [statsMap EXCEPT ![index] = stats]
     ELSE Append(statsMap, stats)

recordTerm(term, source, section, weight, fragmentId, statsMap) ==
  LET normalized == normalizeTerm(term)
  IN IF normalized = "" \/ Len(normalized) < 3 THEN statsMap
     ELSE IF isGenericTerm(normalized) THEN statsMap
     ELSE recordCanonical(normalized, term, source, section, weight, fragmentId, statsMap)

collectTokens(tokens, section, fragmentId, statsMap) ==
  LET weight == SECTION_WEIGHTS[section]
  IN Fold(LAMBDA i, acc :
            IF ~shouldKeepToken(tokens[i]) THEN acc
            ELSE recordTerm(tokens[i], "term", section, weight, fragmentId, acc),
          1, Len(tokens), statsMap)

\* a bigram that weighs as much as a trigram
bigramWeight_asTrigram(weight) == (weight * 115) \div 100

\* weight * 1.1 and weight * 1.15, exact in thousandths
bigramWeight(weight) == (weight * 11) \div 10
trigramWeight(weight) == (weight * 115) \div 100

\* the loop body of collectPhrases; index counts from 1 here
\* if (phrase) recordTerm(phrase, 'phrase', section, weight, fragmentId, statsMap)
recordPhrase(phrase, section, weight, fragmentId, statsMap) ==
  IF phrase # ""
    THEN recordTerm(phrase, "phrase", section, weight, fragmentId, statsMap)
    ELSE statsMap

phraseStep(tokens, index, section, fragmentId, statsMap) ==
  recordPhrase(buildPhrase(tokens, index, 3), section,
               trigramWeight(SECTION_WEIGHTS[section]), fragmentId,
               recordPhrase(buildPhrase(tokens, index, 2), section,
                            bigramWeight(SECTION_WEIGHTS[section]), fragmentId, statsMap))

collectPhrases(tokens, section, fragmentId, statsMap) ==
  Fold(LAMBDA i, acc : phraseStep(tokens, i, section, fragmentId, acc),
       1, Len(tokens), statsMap)

\* the body of fragments.forEach in extractKeywords
collectFragment(fragment, statsMap) ==
  LET tokens == tokenize(fragment.content)
  IN IF tokens = <<>> THEN statsMap
     ELSE collectPhrases(tokens, fragment.section, fragment.id,
            collectTokens(tokens, fragment.section, fragment.id, statsMap))

\* a choice that lets the last tier of largest weight win
getDominantSection_lastOfLargest(sectionWeights) ==
  LET best == CHOOSE i \in 1..Len(Tiers) :
                /\ \A j \in 1..Len(Tiers) :
                     sectionWeights[Tiers[j]] <= sectionWeights[Tiers[i]]
                /\ \A j \in (i + 1)..Len(Tiers) :
                     sectionWeights[Tiers[j]] < sectionWeights[Tiers[i]]
  IN Tiers[best]

\* Object.entries(sectionWeights).sort((a, b) => b[1] - a[1])[0][0]: the sort
\* is stable, so the first tier, in declaration order, of largest weight
getDominantSection(sectionWeights) ==
  LET best == CHOOSE i \in 1..Len(Tiers) :
                /\ \A j \in 1..Len(Tiers) :
                     sectionWeights[Tiers[j]] <= sectionWeights[Tiers[i]]
                /\ \A j \in 1..(i - 1) :
                     sectionWeights[Tiers[j]] < sectionWeights[Tiers[i]]
  IN Tiers[best]

\* label.replace(/\s+/g, ' ')
squeezeWhitespace(s) ==
  LET words == matchRuns(s, 1, CharsOf(s) \ WhitespaceSet, CharsOf(s) \ WhitespaceSet)
  IN (IF s # "" /\ Head(s) \in WhitespaceSet THEN " " ELSE "")
       \o joinWithSpace(words)
       \o (IF words # <<>> /\ CharAt(s, Len(s)) \in WhitespaceSet THEN " " ELSE "")

\* the first surface of largest count (stable sort by count, descending)
selectDisplayLabel(stats) ==
  IF stats.surfaces = <<>> THEN stats.canonical
  ELSE
    LET s == stats.surfaces
        best == CHOOSE i \in 1..Len(s) :
                  /\ \A j \in 1..Len(s) : s[j].count <= s[i].count
                  /\ \A j \in 1..(i - 1) : s[j].count < s[i].count
    IN squeezeWhitespace(s[best].term)

\* .sort((a, b) => a.importance - b.importance)
sortByImportance_ascending(items) ==
  Fold(LAMBDA i, sorted :
         LET ahead == Cardinality({ j \in 1..Len(sorted) :
                        sorted[j].importance <= items[i].importance })
         IN SubSeq(sorted, 1, ahead) \o <<items[i]>> \o SubSeq(sorted, ahead + 1, Len(sorted)),
       1, Len(items), <<>>)

\* array.sort((a, b) => b.importance - a.importance): stable, descending.
\* Each item goes behind the items, already placed, that are not smaller.
sortByImportance(items) ==
  Fold(LAMBDA i, sorted :
         LET ahead == Cardinality({ j \in 1..Len(sorted) :
                        sorted[j].importance >= items[i].importance })
         IN SubSeq(sorted, 1, ahead) \o <<items[i]>> \o SubSeq(sorted, ahead + 1, Len(sorted)),
       1, Len(items), <<>>)

\* values.sort((a, b) => a - b)
sortAscending(values) ==
  Fold(LAMBDA i, sorted :
         LET ahead == Cardinality({ j \in 1..Len(sorted) : sorted[j] <= values[i] })
         IN SubSeq(sorted, 1, ahead) \o <<values[i]>> \o SubSeq(sorted, ahead + 1, Len(sorted)),
       1, Len(values), <<>>)

\* Math.max(...values)
maxOf(values) == Fold(LAMBDA i, acc : Max(acc, values[i]), 2, Len(values), values[1])

\* the importance without the Math.min(..., 1)
importanceOf_unclamped(stat, maxWeighted) ==
  LET sectionBoost == SECTION_WEIGHTS[getDominantSection(stat.sectionWeights)] \div 100
      phraseBoost == IF stat.source = "phrase" THEN 21 ELSE 20
  IN RoundDiv(5 * stat.weightedOccurrences * sectionBoost * phraseBoost, maxWeighted)

\* Number(Math.min((weighted / maxWeighted) * sectionBoost * phraseBoost, 1).toFixed(3)),
\* in thousandths: weighted is in thousandths, sectionBoost in tenths and
\* phraseBoost in twentieths (1.05 = 21/20)
importanceOf(stat, maxWeighted) ==
  LET sectionBoost == SECTION_WEIGHTS[getDominantSection(stat.sectionWeights)] \div 100
      phraseBoost == IF stat.source = "phrase" THEN 21 ELSE 20
      num == stat.weightedOccurrences * sectionBoost * phraseBoost
      den == maxWeighted * 10 * 20
  IN IF num >= den THEN 1000 ELSE RoundDiv(5 * num, maxWeighted)

\* the .map(...) of extractKeywords: one KeywordInsight per KeywordStats.
\* variants is kept as the set of the sorted array; coverage as a fraction.
toKeywordInsight(stat, maxWeighted, totalFragments) ==
  [canonical |-> stat.canonical,
   label |-> selectDisplayLabel(stat),
   occurrences |-> stat.occurrences,
   importance |-> importanceOf(stat, maxWeighted),
   section |-> getDominantSection(stat.sectionWeights),
   source |-> stat.source,
   variants |-> stat.variants,
   coverage |-> [num |-> Cardinality(stat.fragmentIds), den |-> totalFragments]]

\* computePercentile(values, percentile) for percentile = pNum / pDen;
\* the result is pDen times the value the code returns
computePercentile(values, pNum, pDen) ==
  IF values = <<>> THEN 0
  ELSE
    LET scaled == (Len(values) - 1) * pNum
        lower == scaled \div pDen
        rest == scaled % pDen
        upper == IF rest = 0 THEN lower ELSE lower + 1
    IN IF lower = upper THEN pDen * values[lower + 1]
       ELSE values[lower + 1] * (pDen - rest) + values[upper + 1] * rest

\* the local `keywords` of extractKeywords: every candidate, sorted
\* Array.from(statsMap.values()) after fragments.forEach
collectStats(fragments) ==
  Fold(LAMBDA i, acc : collectFragment(fragments[i], acc), 1, Len(fragments), <<>>)

\* Math.max(...statsArray.map((stat) => stat.weightedOccurrences))
maxWeightedOf(statsArray) ==
  maxOf(SeqMap(statsArray, LAMBDA s : s.weightedOccurrences))

\* statsArray.map(...).sort(...)
rankStats(statsArray, maxWeighted, totalFragments) ==
  sortByImportance(
    SeqMap(statsArray, LAMBDA s : toKeywordInsight(s, maxWeighted, totalFragments)))

\* if (!statsArray.length) return []
keywordsOfStats(statsArray, totalFragments) ==
  IF statsArray = <<>> THEN <<>>
  ELSE rankStats(statsArray, maxWeightedOf(statsArray), totalFragments)

\* totalFragments = Math.max(fragments.length, 1)
keywordsOfFragments(fragments) ==
  keywordsOfStats(collectStats(fragments), Max(Len(fragments), 1))

rankedKeywords(text) == keywordsOfFragments(splitIntoFragments(text))

MinKept == 5

\* a coverage filter that is applied however few keywords it leaves
coverageFilter_unguarded(ranked) ==
  IF Len(ranked) > 10
    THEN SeqFilter(ranked, LAMBDA kw :
           100 * kw.coverage.num <= 45 * kw.coverage.den \/ kw.importance >= 400)
    ELSE ranked

\* keyword.coverage <= 0.45 || keyword.importance >= 0.4
coverageFilter(ranked) ==
  IF Len(ranked) > 10
    THEN LET coverageFiltered ==
               SeqFilter(ranked, LAMBDA kw :
                 100 * kw.coverage.num <= 45 * kw.coverage.den \/ kw.importance >= 400)
         IN IF Len(coverageFiltered) >= MinKept THEN coverageFiltered ELSE ranked
    ELSE ranked

\* kw.importance >= Math.max(computePercentile(values, 0.25), 0.25)
percentileFilter(refined) ==
  IF Len(refined) > 12
    THEN LET importanceValues == sortAscending(SeqMap(refined, LAMBDA kw : kw.importance))
             percentileFloor == computePercentile(importanceValues, 1, 4)
             importanceThreshold == Max(percentileFloor, 4 * 250)
             percentileFiltered ==
               SeqFilter(refined, LAMBDA kw : 4 * kw.importance >= importanceThreshold)
         IN IF Len(percentileFiltered) >= MinKept THEN percentileFiltered ELSE refined
    ELSE refined

\* the filters of extractKeywords, and `if (!refined.length) refined = keywords.slice()`
refineKeywords(ranked) ==
  LET refined == percentileFilter(coverageFilter(ranked))
  IN IF refined = <<>> THEN ranked ELSE refined

\* a truncation that keeps one keyword more
sliceTo_oneMore(refined, lim) == SubSeq(refined, 1, Min(lim + 1, Len(refined)))

\* refined.slice(0, limit), for limit >= 0
sliceTo(refined, lim) == SubSeq(refined, 1, Min(lim, Len(refined)))

extractKeywords(text, lim) == sliceTo(refineKeywords(rankedKeywords(text)), lim)

-----------------------------------------------------------------------------
(* Resume scoring: analyzeResume, buildSummary, buildSuggestions           *)

\* a lookup that takes the hits from whichever table has the key
toKeywordMatch_anyTable(kw, unigramCounts, bigramCounts, trigramCounts) ==
  [canonical |-> kw.canonical,
   label |-> kw.label,
   jdOccurrences |-> kw.occurrences,
   resumeHits |-> countGet(unigramCounts, kw.canonical)
                    + countGet(bigramCounts, kw.canonical)
                    + countGet(trigramCounts, kw.canonical),
   importance |-> kw.importance,
   section |-> kw.section,
   source |-> kw.source]

\* the .map(...) of analyzeResume: one KeywordMatch per keyword
toKeywordMatch(kw, unigramCounts, bigramCounts, trigramCounts) ==
  LET tokenLength == Len(splitOn(kw.canonical, " "))
      sourceCounts ==
        IF tokenLength = 1 THEN unigramCounts
        ELSE IF tokenLength = 2 THEN bigramCounts
        ELSE trigramCounts
  IN [canonical |-> kw.canonical,
      label |-> kw.label,
      jdOccurrences |-> kw.occurrences,
      resumeHits |-> countGet(sourceCounts, kw.canonical),
      importance |-> kw.importance,
      section |-> kw.section,
      source |-> kw.source]

\* a filter that asks for a second hit
isMatched_twice(match) == match.resumeHits > 1

isMatched(match) == match.resumeHits > 0
isMissing(match) == match.resumeHits = 0

\* a coverage that subtracts the importance of the keywords not matched
coverageScoreOf_signed(kws, matched) ==
  LET total == sumOf(SeqMap(kws, LAMBDA kw : kw.importance))
      hit == sumOf(SeqMap(matched, LAMBDA m : m.importance))
  IN [num |-> hit - (total - hit),
      den |-> IF total = 0 THEN 1000 ELSE total]

\* The three scores are fractions [num, den]; importances are thousandths.
\* totalImportance: `sum || 1`
coverageScoreOf(kws, matched) ==
  LET total == sumOf(SeqMap(kws, LAMBDA kw : kw.importance))
  IN [num |-> sumOf(SeqMap(matched, LAMBDA m : m.importance)),
      den |-> IF total = 0 THEN 1000 ELSE total]

\* a density that is the smaller of hits and occurrences over the larger, so
\* hits beyond the occurrences of the JD count against the resume
densityScoreOf_penalizesExcess(kws, matched) ==
  LET common == productOf(SeqMap(matched, LAMBDA m :
                  Max(m.resumeHits, Max(m.jdOccurrences, 1))))
  IN [num |-> sumOf(SeqMap(matched, LAMBDA m :
                 Min(m.resumeHits, Max(m.jdOccurrences, 1))
                   * (common \div Max(m.resumeHits, Max(m.jdOccurrences, 1))))),
      den |-> common * Max(Len(kws), 1)]

\* sum of Math.min(resumeHits / Math.max(jdOccurrences, 1), 1) over the
\* matched, over Math.max(keywords.length, 1); the common denominator of the
\* terms is the product of their Math.max(jdOccurrences, 1)
densityScoreOf(kws, matched) ==
  LET common == productOf(SeqMap(matched, LAMBDA m : Max(m.jdOccurrences, 1)))
  IN [num |-> sumOf(SeqMap(matched, LAMBDA m :
                 Min(m.resumeHits, Max(m.jdOccurrences, 1))
                   * (common \div Max(m.jdOccurrences, 1)))),
      den |-> common * Max(Len(kws), 1)]

breadthScoreOf(kws, matched) ==
  [num |-> Len(matched), den |-> Max(Len(kws), 1)]

\* the three scores weighted 0.5, 0.3 and 0.2
finalScoreOf_otherWeights(coverageScore, densityScore, breadthScore) ==
  RoundDiv(50 * coverageScore.num * densityScore.den * breadthScore.den
             + 30 * densityScore.num * coverageScore.den * breadthScore.den
             + 20 * breadthScore.num * coverageScore.den * densityScore.den,
           coverageScore.den * densityScore.den * breadthScore.den)

\* Math.round((coverage * 0.6 + density * 0.3 + breadth * 0.1) * 100)
finalScoreOf(coverageScore, densityScore, breadthScore) ==
  RoundDiv(60 * coverageScore.num * densityScore.den * breadthScore.den
             + 30 * densityScore.num * coverageScore.den * breadthScore.den
             + 10 * breadthScore.num * coverageScore.den * densityScore.den,
           coverageScore.den * densityScore.den * breadthScore.den)

\* the three percentages of the summary sentence
buildSummary(coverageScore, densityScore, breadthScore) ==
  [coveragePct |-> RoundDiv(100 * coverageScore.num, coverageScore.den),
   densityPct |-> RoundDiv(100 * densityScore.num, densityScore.den),
   breadthPct |-> RoundDiv(100 * breadthScore.num, breadthScore.den)]

\* action and detail are fixed sentences around label, priority and weight
toSuggestion(match, type) ==
  [canonical |-> match.canonical,
   label |-> match.label,
   priority |-> match.section,
   weight |-> RoundDiv(match.importance, 10),
   type |-> type]

MaxAddSuggestions == 5
MaxExpandSuggestions == 2

\* suggestions that take the missing keywords in the order of the list
buildSuggestions_unsorted(missingKeywords, matchedKeywords) ==
  LET prioritizedMissing ==
        SubSeq(missingKeywords, 1, Min(MaxAddSuggestions, Len(missingKeywords)))
      underused ==
        SeqFilter(matchedKeywords, LAMBDA m :
          m.resumeHits > 0 /\ m.resumeHits < m.jdOccurrences)
      enrichmentTargets ==
        SubSeq(underused, 1, Min(MaxExpandSuggestions, Len(underused)))
  IN SeqMap(prioritizedMissing, LAMBDA m : toSuggestion(m, "add"))
       \o SeqMap(enrichmentTargets, LAMBDA m : toSuggestion(m, "expand"))

buildSuggestions(missingKeywords, matchedKeywords) ==
  LET sortedMissing == sortByImportance(missingKeywords)
      prioritizedMissing ==
        SubSeq(sortedMissing, 1, Min(MaxAddSuggestions, Len(sortedMissing)))
      underused ==
        SeqFilter(matchedKeywords, LAMBDA m :
          m.resumeHits > 0 /\ m.resumeHits < m.jdOccurrences)
      enrichmentTargets ==
        SubSeq(underused, 1, Min(MaxExpandSuggestions, Len(underused)))
  IN SeqMap(prioritizedMissing, LAMBDA m : toSuggestion(m, "add"))
       \o SeqMap(enrichmentTargets, LAMBDA m : toSuggestion(m, "expand"))

\* the returned ResumeAnalysis
analysisOf(coverageScore, densityScore, breadthScore, matchedKeywords, missingKeywords) ==
  [score |-> Min(finalScoreOf(coverageScore, densityScore, breadthScore), 100),
   matchedKeywords |-> matchedKeywords,
   missingKeywords |-> missingKeywords,
   summary |-> buildSummary(coverageScore, densityScore, breadthScore),
   suggestions |-> buildSuggestions(missingKeywords, matchedKeywords)]

\* analyzeResume from `const totalImportance` on
scoreMatches(kws, matchedKeywords, missingKeywords) ==
  analysisOf(coverageScoreOf(kws, matchedKeywords),
             densityScoreOf(kws, matchedKeywords),
             breadthScoreOf(kws, matchedKeywords),
             matchedKeywords, missingKeywords)

\* the two filters of keywordMatches
partitionMatches(kws, keywordMatches) ==
  scoreMatches(kws, SeqFilter(keywordMatches, isMatched),
                    SeqFilter(keywordMatches, isMissing))

\* keywords.map(...)
matchKeywords(kws, unigramCounts, bigramCounts, trigramCounts) ==
  SeqMap(kws, LAMBDA kw : toKeywordMatch(kw, unigramCounts, bigramCounts, trigramCounts))

\* analyzeResume from `const unigramCounts` on
analyzeTokens(resumeTokens, kws) ==
  partitionMatches(kws,
    matchKeywords(kws, buildNgramCounts(resumeTokens, 1),
                       buildNgramCounts(resumeTokens, 2),
                       buildNgramCounts(resumeTokens, 3)))

analyzeResume(text, kws) == analyzeTokens(tokenize(text), kws)

-----------------------------------------------------------------------------
(* Inputs                                                                  *)

\* the sequences over `items` of length at most n
RECURSIVE SeqsUpTo(_, _)
SeqsUpTo(items, n) ==
  IF n = 0 THEN {<<>>}
  ELSE LET shorter == SeqsUpTo(items, n - 1)
       IN shorter \cup { Append(s, x) : s \in shorter, x \in items }

KeywordInsight(canonical, occurrences, importance, section, source) ==
  [canonical |-> canonical,
   label |-> canonical,
   occurrences |-> occurrences,
   importance |-> importance,
   section |-> section,
   source |-> source,
   variants |-> {canonical},
   coverage |-> [num |-> 1, den |-> 10]]

\* Keyword lists handed to analyzeResume: importances of the heuristic path
\* (0..1), of the semantic path (0.4 and above, 1.5 for a weightPercent of
\* 150), and the degenerate 0; occurrences 0 to 3
KeywordPool ==
  { KeywordInsight("react", 1, 1000, "core", "term"),
    KeywordInsight("talent acquisition", 3, 1500, "responsibility", "phrase"),
    KeywordInsight("machine learning", 2, 400, "preferred", "phrase"),
    KeywordInsight("python", 0, 0, "general", "term"),
    KeywordInsight("full stack web development", 1, 250, "general", "phrase") }

MaxKeywords == 2
KeywordLists == SeqsUpTo(KeywordPool, MaxKeywords)

\* Resume texts: up to MaxResumeWords of these, separated by one space
ResumePhrases ==
  { "React.js", "react", "React Native", "talent acquisition", "python", "..." }

MaxResumeWords == 2
ResumeTexts == { joinWithSpace(ws) : ws \in SeqsUpTo(ResumePhrases, MaxResumeWords) }

\* the resume of the specification's section 8
ScenarioResume == "I have 5 years of React and React Native experience"

\* Every member of every synonym group as a resume of its own, scored
\* against the one keyword of each group's canonical key
SynonymMembers ==
  UNION { Range(SYNONYM_GROUPS[g]) : g \in 1..Len(SYNONYM_GROUPS) }

CanonicalKeywords ==
  { KeywordInsight(normalizeTerm(SYNONYM_GROUPS[g][1]), 1, 1000, "core", "phrase") :
      g \in 1..Len(SYNONYM_GROUPS) }

\* A keyword list with more keywords than suggestions: for SuggestionResume
\* six are missing (two of them of equal importance, one that rounds at a
\* half), three are matched less often than the JD names them, one as often
\* and one that the JD never named
SuggestionKeywords ==
  << KeywordInsight("python", 3, 300, "general", "term"),
     KeywordInsight("docker", 1, 650, "core", "term"),
     KeywordInsight("react", 1, 1000, "core", "term"),
     KeywordInsight("linux", 2, 250, "general", "term"),
     KeywordInsight("sql", 2, 700, "core", "term"),
     KeywordInsight("aws", 1, 900, "preferred", "term"),
     KeywordInsight("java", 4, 125, "general", "term"),
     KeywordInsight("kubernetes", 1, 650, "responsibility", "term"),
     KeywordInsight("terraform", 1, 995, "core", "term"),
     KeywordInsight("ansible", 1, 100, "general", "term"),
     KeywordInsight("talent acquisition", 0, 400, "responsibility", "phrase") >>
SuggestionResume == "python react sql java java talent acquisition"
SuggestionResumes == { SuggestionResume, "react", "" }

\* resumes that hold a phrase of four words, scored against the lists of
\* KeywordLists, among them the keyword of that phrase
LongPhraseResumes ==
  { "full stack web development", "Python: full stack web development, React" }

NoAnalysis ==
  [score |-> -1, matchedKeywords |-> <<>>, missingKeywords |-> <<>>,
   summary |-> [coveragePct |-> 0, densityPct |-> 0, breadthPct |-> 0],
   suggestions |-> <<>>]

\* a call that remembers every token it has met as a canonical key of its own
lookupAfterCall_memo(text) ==
  LET tokens == tokenize(text)
  IN Fold(LAMBDA i, lookup :
            IF tokens[i] \in DOMAIN lookup THEN lookup
            ELSE mapSet(lookup, tokens[i],
                        [canonical |-> tokens[i], variants |-> <<tokens[i]>>]),
          1, Len(tokens), SYNONYM_LOOKUP)

\* extractKeywords and analyzeResume, and recordTerm, isFillerWord,
\* isGenericTerm, getCanonicalKey and buildNgramCounts under them, only read
\* SYNONYM_LOOKUP (get, has): the Map a call on `text` leaves behind
lookupAfterCall(text) == SYNONYM_LOOKUP

-----------------------------------------------------------------------------
(* analyzeResume as a step: the arguments are drawn in the initial state   *)

InitResume ==
  /\ SYNONYM_LOOKUP = buildSynonymMap
  /\ halfUp \in BOOLEAN
  /\ phase = "resume"
  /\ \/ resumeText \in ResumeTexts \cup {ScenarioResume} /\ keywords \in KeywordLists
     \/ resumeText \in SynonymMembers /\ keywords \in { <<kw>> : kw \in CanonicalKeywords }
     \/ resumeText \in SuggestionResumes /\ keywords = SuggestionKeywords
     \/ resumeText \in LongPhraseResumes /\ keywords \in KeywordLists
  /\ analysis = NoAnalysis
  /\ jdText = "" /\ limit = 0 /\ jdRanked = <<>> /\ jdKeywords = <<>>
  /\ calls = <<>>
  /\ AppInitial
  /\ ServerInitial

AnalyzeResume ==
  /\ phase = "resume"
  /\ analysis' = analyzeResume(resumeText, keywords)
  /\ SYNONYM_LOOKUP' = lookupAfterCall(resumeText)
  /\ phase' = "resume-done"
  /\ UNCHANGED <<halfUp, jdText, limit, jdRanked, jdKeywords,
                 resumeText, keywords, calls, appVars, serverVars>>

NextResume == AnalyzeResume

SpecResume == InitResume /\ [][NextResume]_vars

-----------------------------------------------------------------------------
(* extractKeywords as a step                                               *)

\* Job descriptions: up to MaxJdLines of these lines, separated by "\n"
JdLines ==
  { "Requirements:",
    "Preferred: AWS certification",
    "Must use React, SQL, Node, SQL, SQL and AWS",
    " Java\r",
    "Kubernetes terraform ansible docker linux",
    "Docker linux aws docker linux",
    "React.js and React Native or ReactJS" }

joinLines(lines) ==
  Fold(LAMBDA i, acc : IF i = 1 THEN lines[i] ELSE acc \o "\n" \o lines[i],
       1, Len(lines), "")

MaxJdLines == 2
ComposedJdTexts == { joinLines(ls) : ls \in SeqsUpTo(JdLines, MaxJdLines) }

\* the scenario of the specification's section 8, as one line and with each
\* section heading on a line of its own
ScenarioOneLine ==
  "Requirements: Must have React experience. Responsibilities: Lead agile ceremonies. Preferred: AWS certification."
ScenarioByLine ==
  "Requirements:\nReact experience.\nResponsibilities:\nLead agile ceremonies.\nPreferred:\nAWS certification."

\* an inline marker, a plain line, a heading that holds an inline marker, and
\* a line under that heading
SegmentedText == "Must use SQL\nJava\nPreferred: AWS bonus\nDocker"

\* one term with the same weight in two tiers: five times under the heading
\* of the preferred tier (5 * 0.8) and four times under that of
\* the responsibilities (4 * 1)
TiedText == "Preferred:\ngit git git git git\nResponsibilities:\ngit git git git"

\* one word that outweighs all others on a single line: eighteen candidates,
\* all of coverage 1, three of them of importance 0.4 or more
DominatedText == "git git git git git kubernetes terraform ansible docker linux"

\* a heading of two tiers (preferred and core), a heading of two others
\* (responsibility and preferred), and a line of 83 characters that holds the
\* words of two heading patterns
LongLine ==
  "Our day to day work needs broad skills in kubernetes, terraform, ansible and docker"
MixedHeadingsText ==
  "Preferred skills\nDocker\nResponsibilities and nice to have\nLinux\n" \o LongLine \o "\nGit"

JdTexts ==
  ComposedJdTexts
    \cup {ScenarioOneLine, ScenarioByLine, SegmentedText, TiedText, DominatedText,
          MixedHeadingsText}

DefaultLimit == 28
Limits == {0, 1, 12, DefaultLimit}

InitJd ==
  /\ SYNONYM_LOOKUP = buildSynonymMap
  /\ halfUp \in BOOLEAN
  /\ phase = "jd"
  /\ jdText \in JdTexts
  /\ limit \in Limits
  /\ jdRanked = <<>> /\ jdKeywords = <<>>
  /\ resumeText = "" /\ keywords = <<>> /\ analysis = NoAnalysis
  /\ calls = <<>>
  /\ AppInitial
  /\ ServerInitial

ExtractKeywords ==
  /\ phase = "jd"
  /\ jdRanked' = rankedKeywords(jdText)
  /\ jdKeywords' = sliceTo(refineKeywords(jdRanked'), limit)
  /\ SYNONYM_LOOKUP' = lookupAfterCall(jdText)
  /\ phase' = "jd-done"
  /\ UNCHANGED <<halfUp, jdText, limit, resumeText, keywords, analysis, calls,
                 appVars, serverVars>>

NextJd == ExtractKeywords

SpecJd == InitJd /\ [][NextJd]_vars

-----------------------------------------------------------------------------
(* Calls in sequence: extractKeywords and analyzeResume called one after   *)
(* the other in one module instance, each call recorded with its result    *)

CallTexts == { "Must use React, SQL, Node, SQL, SQL and AWS", " Java\r", "SEO, SQL" }
CallLimits == {1, DefaultLimit}
CallResumes == { "I must use React.js and SQL" }

MaxCalls == 3

InitCalls ==
  /\ SYNONYM_LOOKUP = buildSynonymMap
  /\ halfUp \in BOOLEAN
  /\ phase = "calls"
  /\ jdText = "" /\ limit = 0 /\ jdRanked = <<>> /\ jdKeywords = <<>>
  /\ resumeText = "" /\ keywords = <<>> /\ analysis = NoAnalysis
  /\ calls = <<>>
  /\ AppInitial
  /\ ServerInitial

CallExtract(text, lim) ==
  /\ phase = "calls"
  /\ Len(calls) < MaxCalls
  /\ jdText' = text
  /\ limit' = lim
  /\ jdRanked' = rankedKeywords(text)
  /\ jdKeywords' = sliceTo(refineKeywords(jdRanked'), lim)
  /\ calls' = Append(calls, [fn |-> "extractKeywords", text |-> text, limit |-> lim,
                             keywords |-> <<>>, result |-> jdKeywords'])
  /\ SYNONYM_LOOKUP' = lookupAfterCall(text)
  /\ UNCHANGED <<halfUp, phase, resumeText, keywords, analysis, appVars, serverVars>>

\* a text (a resume, or the JD text itself) is scored against the list the
\* last extraction returned
CallAnalyze(text) ==
  /\ phase = "calls"
  /\ Len(calls) < MaxCalls
  /\ resumeText' = text
  /\ keywords' = jdKeywords
  /\ analysis' = analyzeResume(text, jdKeywords)
  /\ calls' = Append(calls, [fn |-> "analyzeResume", text |-> text, limit |-> 0,
                             keywords |-> jdKeywords, result |-> <<analysis'>>])
  /\ SYNONYM_LOOKUP' = lookupAfterCall(text)
  /\ UNCHANGED <<halfUp, phase, jdText, limit, jdRanked, jdKeywords, appVars, serverVars>>

NextCalls ==
  \/ \E text \in CallTexts, lim \in CallLimits : CallExtract(text, lim)
  \/ \E text \in CallResumes \cup {jdText} : CallAnalyze(text)

SpecCalls == InitCalls /\ [][NextCalls]_vars

-----------------------------------------------------------------------------
(* documentParsers.ts and semanticClient.ts, as App uses them              *)

MAX_FILE_SIZE == 10485760
SUPPORTED_FILE_TYPES == {"pdf", "docx", "txt", "text"}

\* file.name.split('.').pop()?.toLowerCase() ?? ''
extensionOf(name) == toLowerCase(splitOn(name, ".")[Len(splitOn(name, "."))])

\* fileToPlainText(file): the text of the file, or the Error that is thrown.
\* A file is [name, size, text]; text is what the parser of its type extracts.
fileToPlainText(file) ==
  IF file.size > MAX_FILE_SIZE
    THEN [ok |-> FALSE, unsupported |-> FALSE, content |-> "",
          message |-> "Maximum file size is 10 MB."]
  ELSE IF extensionOf(file.name) \notin SUPPORTED_FILE_TYPES
    THEN [ok |-> FALSE, unsupported |-> TRUE, content |-> "",
          message |-> "Only PDF, DOCX, or TXT files are supported."]
  ELSE [ok |-> TRUE, unsupported |-> FALSE, content |-> file.text, message |-> ""]

\* !text.trim()
isBlank(text) == trim(text) = ""

\* What fetch gives: it rejects (kind "failed": no server, network error, a
\* body that is not JSON) or resolves with a status and the parsed body.
NoBody == [empty |-> TRUE]
FetchFailed == [kind |-> "failed", status |-> 0, body |-> NoBody]
\* the reply recorded for a request that is never sent
NotSent == [kind |-> "not-sent", status |-> 0, body |-> NoBody]
Response(status, body) == [kind |-> "response", status |-> status, body |-> body]

\* response.ok
responseOk(reply) == reply.kind = "response" /\ reply.status >= 200 /\ reply.status <= 299

\* requestSemanticAnalysis(payload), reply being what fetch gives
requestSemanticAnalysis(payload, reply) ==
  IF isBlank(payload.jdText) \/ isBlank(payload.resumeText) THEN <<>>
  ELSE IF reply.kind = "failed" THEN <<>>
  ELSE IF ~responseOk(reply) THEN <<>>
  ELSE <<reply.body>>

\* requestSemanticKeywords(jdText); a body is [requirements, questions], each
\* <<array>> when it is an array and <<>> when it is not
requestSemanticKeywords(text, reply) ==
  IF isBlank(text) THEN <<>>
  ELSE IF reply.kind = "failed" THEN <<>>
  ELSE IF ~responseOk(reply) THEN <<>>
  ELSE IF reply.body.requirements = <<>> THEN <<>>
  ELSE <<[requirements |-> reply.body.requirements[1],
          questions |-> IF reply.body.questions = <<>> THEN <<>>
                        ELSE reply.body.questions[1]]>>

-----------------------------------------------------------------------------
(* App.tsx: the helpers of the two upload handlers                         *)

\* priorityMap[value] ?? 'general'
mapPriority(value) ==
  IF value = "must-have" THEN "core"
  ELSE IF value = "responsibility" THEN "responsibility"
  ELSE IF value = "preferred" THEN "preferred"
  ELSE IF value = "baseline" THEN "general"
  ELSE "general"

\* the floor 0.4 of a semantic importance, in thousandths
MinSemanticImportance == 400

\* an insight that takes the weight of the service as it comes
toSemanticInsight_noFloor(item) ==
  [canonical |-> toLowerCase(item.label),
   label |-> item.label,
   occurrences |-> 1,
   importance |-> item.weightPercent * 10,
   section |-> mapPriority(item.priority),
   source |-> "phrase",
   variants |-> Range(item.synonyms),
   coverage |-> [num |-> 1, den |-> 10]]

\* the .map(...) of handleJobDescriptionUpload: one KeywordInsight per
\* semantic requirement; weightPercent / 100 in thousandths is weightPercent * 10
toSemanticInsight(item) ==
  [canonical |-> toLowerCase(item.label),
   label |-> item.label,
   occurrences |-> 1,
   importance |-> Max(item.weightPercent * 10, MinSemanticImportance),
   section |-> mapPriority(item.priority),
   source |-> "phrase",
   variants |-> Range(item.synonyms),
   coverage |-> [num |-> 1, den |-> 10]]

\* An InterviewQuestion is the template of its two sentences with the label
\* and the priority that fill it.
Question(template, label, priority) ==
  [template |-> template, label |-> label, priority |-> priority]

TemplateCount == 4
MaxPrioritized == 6
GeneralPromptCount == 4
MaxQuestions == 10

\* templates[index % templates.length](keyword); only the first template
\* names the priority
templateQuestion(kws, i) ==
  Question(<<"template", (i - 1) % TemplateCount>>, kws[i].label,
           IF (i - 1) % TemplateCount = 0 THEN kws[i].section ELSE "")

\* the question pushed by the while loop when `length` questions are there
currentQuestion(kws, length) ==
  Question(<<"current", 0>>, kws[(length % Len(kws)) + 1].label, "")

buildFallbackInterviewQuestions(kws) ==
  IF kws = <<>> THEN <<>>
  ELSE SubSeq(
         [i \in 1..Min(Len(kws), MaxPrioritized) |-> templateQuestion(kws, i)]
           \o [g \in 1..GeneralPromptCount |-> Question(<<"general", g>>, "", "")]
           \o [n \in 1..(MaxQuestions - Min(Len(kws), MaxPrioritized) - GeneralPromptCount) |->
                 currentQuestion(kws, Min(Len(kws), MaxPrioritized) + GeneralPromptCount + n - 1)],
         1, MaxQuestions)

\* a handler that loads whatever extractKeywords returned
heuristicOutcome_loadsEmpty(kws) ==
  [thrown |-> FALSE, keywords |-> kws, usingAI |-> FALSE,
   questions |-> buildFallbackInterviewQuestions(kws)]

\* what the try block of handleJobDescriptionUpload reaches after
\* `keywords = extractKeywords(content)`: the throw, or the values it sets
heuristicOutcome(kws) ==
  IF kws = <<>>
    THEN [thrown |-> TRUE, keywords |-> <<>>, usingAI |-> FALSE, questions |-> <<>>]
    ELSE [thrown |-> FALSE, keywords |-> kws, usingAI |-> FALSE,
          questions |-> buildFallbackInterviewQuestions(kws)]

\* the else branch: the semantic keywords are kept
semanticOutcome(kws, questionSet) ==
  [thrown |-> FALSE, keywords |-> kws, usingAI |-> TRUE,
   questions |-> IF questionSet = <<>> THEN buildFallbackInterviewQuestions(kws)
                 ELSE questionSet]

\* `let keywords = aiBundle ? aiBundle.requirements.map(...) : []`
aiKeywordsOf(aiBundle) ==
  IF aiBundle = <<>> THEN <<>>
  ELSE SeqMap(aiBundle[1].requirements, toSemanticInsight)

\* `aiBundle?.questions ?? []`
aiQuestionsOf(aiBundle) ==
  IF aiBundle = <<>> THEN <<>> ELSE aiBundle[1].questions

\* Math.round of a number given in tenths
roundTenths(tenths) == (tenths + 5) \div 10

\* Math.min(Math.max(Math.round(semanticResult.semanticScore), 0), 100)
clampScore(tenths) == Min(Max(roundTenths(tenths), 0), 100)

\* a display that has no score when the service gave none
finalScoreShown_blank(analysisScore, semanticResult) ==
  IF semanticResult # <<>> THEN clampScore(semanticResult[1].semanticScore)
  ELSE 0

\* finalScore of handleResumeUpload
finalScoreShown(analysisScore, semanticResult) ==
  IF semanticResult # <<>> THEN clampScore(semanticResult[1].semanticScore)
  ELSE analysisScore

\* capabilityBreakdown of handleResumeUpload, kept as the computation that
\* produced it: the service's own list, blendSemanticSignals, or
\* buildFallbackCapabilities
capabilityBreakdownOf(semanticResult) ==
  IF semanticResult = <<>> THEN "fallback"
  ELSE IF semanticResult[1].capabilityBreakdown # <<>> THEN "semantic"
  ELSE "blended"

\* the object handed to setResumeInsights
resumeInsightOf(result, semanticResult, fileName) ==
  [score |-> finalScoreShown(result.score, semanticResult),
   matchedKeywords |-> result.matchedKeywords,
   missingKeywords |-> result.missingKeywords,
   summary |-> result.summary,
   suggestions |-> result.suggestions,
   capabilityBreakdown |-> capabilityBreakdownOf(semanticResult),
   fileName |-> fileName,
   semanticScore |-> IF semanticResult = <<>> THEN <<>>
                     ELSE <<semanticResult[1].semanticScore>>,
   semanticSummary |-> IF semanticResult = <<>> THEN <<>>
                       ELSE <<semanticResult[1].summary>>,
   semanticAligned |-> IF semanticResult = <<>> THEN <<>>
                       ELSE semanticResult[1].alignedThemes,
   semanticGaps |-> IF semanticResult = <<>> THEN <<>>
                    ELSE semanticResult[1].missingThemes,
   aiSuggestions |-> IF semanticResult = <<>> THEN <<>>
                     ELSE semanticResult[1].suggestions]

\* a scoring that sorts the array it was given in place
keywordsAfterCall_sorted(kws) == sortByImportance(kws)

\* analyzeResume reads `keywords` (map, reduce, length) and sorts a copy
\* (slice) in buildSuggestions: the array the caller passed, after the call
keywordsAfterCall(kws) == kws

-----------------------------------------------------------------------------
(* App.tsx: the handlers, one action for each stretch between two awaits   *)

\* The handlers are modelled as the functions they are: the `disabled`
\* attributes of the elements that call them are not part of them.  Every
\* upload event carries a file (without one the handlers return at once).

SmallSize == 2048

File(name, size, text) == [name |-> name, size |-> size, text |-> text]

JdFiles ==
  { File("role.PDF", SmallSize, "SQL"),
    File("blank.docx", SmallSize, " \n"),
    File("role.png", SmallSize, "SQL") }

ResumeFiles ==
  { File("cv.txt", SmallSize, "React, SQL"),
    File("empty.txt", SmallSize, ""),
    File("huge.txt", MAX_FILE_SIZE + 1, "React, SQL") }

\* a requirement as /api/semantic-keywords returns it
SemanticKeyword(label, priority, weightPercent, synonyms) ==
  [label |-> label, priority |-> priority, weightPercent |-> weightPercent,
   synonyms |-> synonyms]

CoreRequirements ==
  <<SemanticKeyword("React", "must-have", 90, <<"ReactJS">>),
    SemanticKeyword("Agile delivery", "responsibility", 30, <<>>)>>
OtherRequirements ==
  <<SemanticKeyword("AWS", "preferred", 150, <<>>),
    SemanticKeyword("Teamwork", "baseline", 30, <<>>),
    SemanticKeyword("SQL", "nice-to-have", 55, <<>>)>>

ServiceQuestion == Question(<<"service", 1>>, "React", "core")

KeywordBody(requirements, questions) ==
  [requirements |-> requirements, questions |-> questions]

\* 500 without an API key (400 and 502 take the same path); a 200 whose `requirements` is no array, is the empty
\* array, or is a list, with or without questions
KeywordReplies ==
  { FetchFailed, Response(500, NoBody),
    Response(200, KeywordBody(<<>>, <<>>)),
    Response(200, KeywordBody(<< <<>> >>, << <<ServiceQuestion>> >>)),
    Response(200, KeywordBody(<<CoreRequirements>>, <<>>)),
    Response(200, KeywordBody(<<OtherRequirements>>, << <<ServiceQuestion>> >>)) }

\* a SemanticAssessment; semanticScore is in tenths
SemanticAssessment(semanticScore, capabilityBreakdown) ==
  [semanticScore |-> semanticScore,
   summary |-> "semantic summary",
   alignedThemes |-> <<"frontend">>,
   missingThemes |-> <<"cloud">>,
   suggestions |-> <<"name the cloud work">>,
   capabilityBreakdown |-> capabilityBreakdown]

SemanticScores == {-15, 725}

AnalysisReplies ==
  { FetchFailed, Response(500, NoBody) }
  \cup { Response(200, SemanticAssessment(score, <<>>)) : score \in SemanticScores }
  \cup { Response(200, SemanticAssessment(1300, <<"technical">>)) }

\* how many times the handlers are called
MaxHandlerCalls == 3

\* a handler invocation that waits at an await, with the values its closure
\* holds: the file, the text read from it, the jdKeywords array (its
\* contents now, which array it is, and its contents when the handler
\* started), jdDocumentText, and the local `analysis`
Upload(handler, pc, id, file, content, kws, listId, captured, documentText, result) ==
  [handler |-> handler, pc |-> pc, id |-> id, file |-> file, content |-> content,
   keywords |-> kws, listId |-> listId, captured |-> captured,
   jdText |-> documentText, analysis |-> result]

modelVars ==
  <<SYNONYM_LOOKUP, halfUp, phase, jdText, limit, jdRanked, resumeText,
    keywords, analysis, calls, serverVars>>

\* No quotient that is rounded for the files and replies above is an exact
\* half, so the side a half is rounded to makes no difference here.
InitApp ==
  /\ SYNONYM_LOOKUP = buildSynonymMap
  /\ halfUp = TRUE
  /\ phase = "app"
  /\ jdText = "" /\ limit = 0 /\ jdRanked = <<>> /\ jdKeywords = <<>>
  /\ resumeText = "" /\ keywords = <<>> /\ analysis = NoAnalysis
  /\ calls = <<>>
  /\ AppInitial
  /\ ServerInitial

\* handleJobDescriptionUpload up to `await fileToPlainText(file)`
StartJdUpload(file) ==
  /\ phase = "app"
  /\ started < MaxHandlerCalls
  /\ started' = started + 1
  /\ errorMessage' = <<>>
  /\ processingJD' = TRUE
  /\ pending' = pending \cup
       {Upload("jd", "parse", started', file, "", <<>>, 0, <<>>, "", <<>>)}
  /\ lastEvent' = Event("jd", "started", <<>>, <<>>)
  /\ UNCHANGED <<modelVars, jdKeywords, jdFileName, jdDocumentText,
                 interviewQuestions, resumeInsights, processingResume,
                 usingAISource, jdListId>>

\* fileToPlainText throws: catch and finally
JdFailed(p, message) ==
  /\ errorMessage' = <<message>>
  /\ processingJD' = FALSE
  /\ pending' = pending \ {p}
  /\ lastEvent' = Event("jd", "failed", <<p>>, <<>>)
  /\ UNCHANGED <<modelVars, jdKeywords, jdFileName, jdDocumentText,
                 interviewQuestions, resumeInsights, processingResume,
                 usingAISource, jdListId, started>>

\* fileToPlainText returns; up to `await requestSemanticKeywords(content)`
JdRead(p, content) ==
  /\ pending' = (pending \ {p}) \cup {[p EXCEPT !.pc = "keywords", !.content = content]}
  /\ lastEvent' = Event("jd", "parsed", <<p>>, <<>>)
  /\ UNCHANGED <<modelVars, jdKeywords, jdFileName, jdDocumentText,
                 interviewQuestions, resumeInsights, processingJD,
                 processingResume, usingAISource, errorMessage, jdListId, started>>

JdParsed(p) ==
  /\ phase = "app"
  /\ p.handler = "jd" /\ p.pc = "parse"
  /\ IF fileToPlainText(p.file).ok
       THEN JdRead(p, fileToPlainText(p.file).content)
       ELSE JdFailed(p, fileToPlainText(p.file).message)

NoKeywordsMessage == "Unable to detect any meaningful keywords in this document."

\* the rest of the try block, with catch and finally
JdFinish(p, reply, outcome) ==
  /\ IF outcome.thrown
       THEN /\ errorMessage' = <<NoKeywordsMessage>>
            /\ UNCHANGED <<jdKeywords, jdFileName, jdDocumentText,
                           interviewQuestions, resumeInsights, usingAISource,
                           jdListId>>
       ELSE /\ usingAISource' = outcome.usingAI
            /\ interviewQuestions' = outcome.questions
            /\ jdKeywords' = outcome.keywords
            /\ jdListId' = p.id
            /\ jdFileName' = p.file.name
            /\ jdDocumentText' = p.content
            /\ resumeInsights' = <<>>
            /\ UNCHANGED errorMessage
  /\ processingJD' = FALSE
  /\ pending' = pending \ {p}
  /\ lastEvent' = Event("jd", IF outcome.thrown THEN "failed" ELSE "finished",
                        <<p>>, <<reply>>)
  /\ UNCHANGED <<modelVars, processingResume, started>>

\* what fetch may give for a text: nothing is sent for a blank one
keywordRepliesFor(text) == IF isBlank(text) THEN {NotSent} ELSE KeywordReplies

\* the replies for which `keywords` is empty at `if (!keywords.length)`
heuristicRepliesFor(text) ==
  { reply \in keywordRepliesFor(text) :
      aiKeywordsOf(requestSemanticKeywords(text, reply)) = <<>> }

\* requestSemanticKeywords returns.  `if (!keywords.length)`: the else
\* branch with the keywords of the service; or extractKeywords(content), the
\* same list whatever fetch gave, is loaded or, being empty, makes the
\* handler throw
JdKeywordsReturned(p) ==
  /\ phase = "app"
  /\ p.handler = "jd" /\ p.pc = "keywords"
  /\ \/ \E reply \in keywordRepliesFor(p.content) \ heuristicRepliesFor(p.content) :
          JdFinish(p, reply,
                   semanticOutcome(aiKeywordsOf(requestSemanticKeywords(p.content, reply)),
                                   aiQuestionsOf(requestSemanticKeywords(p.content, reply))))
     \/ /\ jdKeywords' = extractKeywords(p.content, DefaultLimit)
        /\ jdKeywords' # <<>>
        /\ \E reply \in heuristicRepliesFor(p.content) :
             JdFinish(p, reply, heuristicOutcome(jdKeywords'))
     \/ /\ extractKeywords(p.content, DefaultLimit) = <<>>
        /\ \E reply \in heuristicRepliesFor(p.content) :
             JdFinish(p, reply, heuristicOutcome(<<>>))

\* handleResumeUpload up to `await fileToPlainText(file)`; without keywords
\* it returns at once
StartResumeUpload(file) ==
  /\ phase = "app"
  /\ started < MaxHandlerCalls
  /\ started' = started + 1
  /\ IF jdKeywords = <<>>
       THEN /\ lastEvent' = Event("resume", "ignored", <<>>, <<>>)
            /\ UNCHANGED <<errorMessage, processingResume, pending>>
       ELSE /\ errorMessage' = <<>>
            /\ processingResume' = TRUE
            /\ pending' = pending \cup
                 {Upload("resume", "parse", started', file, "", jdKeywords,
                         jdListId, jdKeywords, jdDocumentText, <<>>)}
            /\ lastEvent' = Event("resume", "started", <<>>, <<>>)
  /\ UNCHANGED <<modelVars, jdKeywords, jdFileName, jdDocumentText,
                 interviewQuestions, resumeInsights, processingJD,
                 usingAISource, jdListId>>

ResumeFailed(p, message) ==
  /\ errorMessage' = <<message>>
  /\ processingResume' = FALSE
  /\ pending' = pending \ {p}
  /\ lastEvent' = Event("resume", "failed", <<p>>, <<>>)
  /\ UNCHANGED <<modelVars, jdKeywords, jdFileName, jdDocumentText,
                 interviewQuestions, resumeInsights, processingJD,
                 usingAISource, jdListId, started>>

\* the array `kws` after a call of analyzeResume on it, in every place that
\* holds this array
sharedAfterCall(q, p) ==
  IF q.handler = "resume" /\ q.listId = p.listId
    THEN [q EXCEPT !.keywords = keywordsAfterCall(p.keywords)]
    ELSE q

\* a finish that takes the answer of the service as the AI indicator
ResumeFinish_setsSource(p, reply, semanticResult) ==
  /\ resumeInsights' = <<resumeInsightOf(p.analysis[1], semanticResult, p.file.name)>>
  /\ usingAISource' = (semanticResult # <<>>)
  /\ processingResume' = FALSE
  /\ pending' = pending \ {p}
  /\ lastEvent' = Event("resume", "finished", <<p>>, <<reply>>)
  /\ UNCHANGED <<modelVars, jdKeywords, jdFileName, jdDocumentText,
                 interviewQuestions, processingJD, errorMessage,
                 jdListId, started>>

\* setResumeInsights and finally
ResumeFinish(p, reply, semanticResult) ==
  /\ resumeInsights' = <<resumeInsightOf(p.analysis[1], semanticResult, p.file.name)>>
  /\ processingResume' = FALSE
  /\ pending' = pending \ {p}
  /\ lastEvent' = Event("resume", "finished", <<p>>, <<reply>>)
  /\ UNCHANGED <<modelVars, jdKeywords, jdFileName, jdDocumentText,
                 interviewQuestions, processingJD, usingAISource, errorMessage,
                 jdListId, started>>

\* `const analysis = analyzeResume(content, jdKeywords)`, then either the
\* await of requestSemanticAnalysis or, with no jdDocumentText, the rest
ResumeScored(p, content) ==
  /\ pending' = { sharedAfterCall(q, p) : q \in pending \ {p} } \cup
       {[p EXCEPT !.pc = "semantic", !.content = content,
                  !.keywords = keywordsAfterCall(p.keywords),
                  !.analysis = <<analyzeResume(content, p.keywords)>>]}
  /\ jdKeywords' = IF jdListId = p.listId THEN keywordsAfterCall(p.keywords)
                   ELSE jdKeywords
  /\ lastEvent' = Event("resume", "parsed", <<p>>, <<>>)
  /\ UNCHANGED <<modelVars, jdFileName, jdDocumentText, interviewQuestions,
                 resumeInsights, processingJD, processingResume, usingAISource,
                 errorMessage, jdListId, started>>

ResumeParsed(p) ==
  /\ phase = "app"
  /\ p.handler = "resume" /\ p.pc = "parse"
  /\ IF fileToPlainText(p.file).ok
       THEN ResumeScored(p, fileToPlainText(p.file).content)
       ELSE ResumeFailed(p, fileToPlainText(p.file).message)

\* what fetch may give for a payload: nothing is sent when `jdDocumentText`
\* is empty or one of the two texts is blank
analysisRepliesFor(p) ==
  IF p.jdText = "" \/ isBlank(p.jdText) \/ isBlank(p.content) THEN {NotSent}
  ELSE AnalysisReplies

\* semanticResult of handleResumeUpload
semanticResultOf(p, reply) ==
  IF p.jdText = "" THEN <<>>
  ELSE requestSemanticAnalysis([jdText |-> p.jdText, resumeText |-> p.content,
                                keywords |-> p.keywords], reply)

ResumeSemanticReturned(p, reply) ==
  /\ phase = "app"
  /\ p.handler = "resume" /\ p.pc = "semantic"
  /\ ResumeFinish(p, reply, semanticResultOf(p, reply))

\* a reset that leaves the interview questions of the last JD in place
handleReset_keepsQuestions ==
  /\ phase = "app"
  /\ started < MaxHandlerCalls
  /\ started' = started + 1
  /\ jdKeywords' = <<>>
  /\ jdListId' = 0
  /\ jdFileName' = ""
  /\ jdDocumentText' = ""
  /\ resumeInsights' = <<>>
  /\ errorMessage' = <<>>
  /\ usingAISource' = FALSE
  /\ lastEvent' = Event("reset", "finished", <<>>, <<>>)
  /\ UNCHANGED <<modelVars, interviewQuestions, processingJD, processingResume,
                 pending>>

handleReset ==
  /\ phase = "app"
  /\ started < MaxHandlerCalls
  /\ started' = started + 1
  /\ jdKeywords' = <<>>
  /\ jdListId' = 0
  /\ jdFileName' = ""
  /\ jdDocumentText' = ""
  /\ interviewQuestions' = <<>>
  /\ resumeInsights' = <<>>
  /\ errorMessage' = <<>>
  /\ usingAISource' = FALSE
  /\ lastEvent' = Event("reset", "finished", <<>>, <<>>)
  /\ UNCHANGED <<modelVars, processingJD, processingResume, pending>>

\* the invocations of a handler that wait at one await
waitingAt(handler, pc) == { p \in pending : p.handler = handler /\ p.pc = pc }

NextApp ==
  \/ \E file \in JdFiles : StartJdUpload(file)
  \/ \E p \in waitingAt("jd", "parse") : JdParsed(p)
  \/ \E p \in waitingAt("jd", "keywords") : JdKeywordsReturned(p)
  \/ \E file \in ResumeFiles : StartResumeUpload(file)
  \/ \E p \in waitingAt("resume", "parse") : ResumeParsed(p)
  \/ \E p \in waitingAt("resume", "semantic") : \E reply \in analysisRepliesFor(p) :
       ResumeSemanticReturned(p, reply)
  \/ handleReset

SpecApp == InitApp /\ [][NextApp]_vars

-----------------------------------------------------------------------------
(* The semantic service: the Express server (server/index.ts) and the two  *)
(* Pages functions (functions/api), which share semanticPayloads.ts.  A    *)
(* JSON value is a record [type, value, items]; a request body is a record *)
(* [kind, jdText, resumeText, keywords].                                   *)

Str(v) == [type |-> "string", value |-> v, items |-> <<>>]
Num(v) == [type |-> "number", value |-> v, items |-> <<>>]
Arr(items) == [type |-> "array", value |-> "", items |-> items]
Undefined == [type |-> "undefined", value |-> "", items |-> <<>>]

ObjectBody(jd, resume, kws) ==
  [kind |-> "object", jdText |-> jd, resumeText |-> resume, keywords |-> kws]
\* the JSON documents `null` and `[]`, and a body that is no JSON document
NullBody == [kind |-> "null", jdText |-> Undefined, resumeText |-> Undefined,
             keywords |-> Undefined]
ArrayBody == [kind |-> "array", jdText |-> Undefined, resumeText |-> Undefined,
              keywords |-> Undefined]
MalformedBody == [kind |-> "malformed", jdText |-> Undefined, resumeText |-> Undefined,
                  keywords |-> Undefined]

\* `const { jdText, resumeText, keywords } = body ?? {}`
destructure(body) ==
  IF body.kind = "object" THEN body
  ELSE [body EXCEPT !.jdText = Undefined, !.resumeText = Undefined,
                    !.keywords = Undefined]

MinJdLength == 40
DigestLength == 14

\* the .map callback of keywordSummary reads keyword.importance: a TypeError
\* for an element that is null
keywordSummary(kws) ==
  IF kws.type # "array" THEN [threw |-> FALSE, lines |-> 0]
  ELSE LET digest == SubSeq(kws.items, 1, Min(DigestLength, Len(kws.items)))
       IN IF \E i \in 1..Len(digest) : digest[i] = "null"
            THEN [threw |-> TRUE, lines |-> 0]
            ELSE [threw |-> FALSE, lines |-> Len(digest)]

\* the payload is kept as the name of its schema and the size of the digest
buildSemanticScorePayload(jd, resume, kws) ==
  [threw |-> keywordSummary(kws).threw,
   name |-> "semantic_alignment",
   lines |-> keywordSummary(kws).lines]

buildKeywordExtractionPayload(jd) ==
  [threw |-> FALSE, name |-> "keyword_extraction", lines |-> 0]

\* what OpenAI gives for a request: the request fails (no connection), the
\* status is not OK, the body is not JSON, or a response object with its
\* output items; an item has a content array or none
Chunk(type, text) == [type |-> type, text |-> text]
Item(hasContent, content) == [hasContent |-> hasContent, content |-> content]
AiReply(kind, hasOutput, output) ==
  [kind |-> kind, hasOutput |-> hasOutput, output |-> output]

AiFailures ==
  { AiReply("rejected", FALSE, <<>>), AiReply("status", FALSE, <<>>),
    AiReply("notJson", FALSE, <<>>) }

AiResponses ==
  { AiReply("response", FALSE, <<>>),
    AiReply("response", TRUE, <<Item(TRUE, <<Chunk("refusal", "no")>>)>>),
    AiReply("response", TRUE, <<Item(TRUE, <<Chunk("output_text", "")>>)>>),
    AiReply("response", TRUE, <<Item(TRUE, <<Chunk("output_text", "not json")>>)>>),
    AiReply("response", TRUE, <<Item(FALSE, <<>>),
                                Item(TRUE, <<Chunk("output_text", "{ }")>>)>>),
    AiReply("response", TRUE, <<Item(TRUE, <<Chunk("refusal", "no"),
                                              Chunk("output_text", " [1, 2]")>>)>>),
    AiReply("response", TRUE, <<Item(TRUE, <<Chunk("output_text", "{ }")>>),
                                Item(TRUE, <<Chunk("output_text", "not json")>>)>>) }

AiReplies == AiFailures \cup AiResponses

\* the JSON documents of the replies, as JSON.stringify writes them
JsonDocuments == {"{}", "[1,2]"}

withoutSpaces(text) ==
  Fold(LAMBDA i, acc : IF CharAt(text, i) \in WhitespaceSet THEN acc
                       ELSE acc \o CharAt(text, i),
       1, Len(text), "")

\* JSON.parse followed by the JSON.stringify of res.json and jsonResponse;
\* none of the documents holds a string, so no whitespace is kept
reserialize(raw) ==
  IF withoutSpaces(raw) \in JsonDocuments
    THEN [threw |-> FALSE, text |-> withoutSpaces(raw)]
    ELSE [threw |-> TRUE, text |-> ""]

\* response?.output?.flatMap((output) => output.content ?? []) ?? []
flatContent(reply) ==
  IF ~reply.hasOutput THEN <<>>
  ELSE Fold(LAMBDA i, acc :
              acc \o (IF reply.output[i].hasContent THEN reply.output[i].content
                      ELSE <<>>),
            1, Len(reply.output), <<>>)

\* the text of the first chunk of type output_text; `!raw` also refuses the
\* empty text
extractStructuredResponse(reply) ==
  LET content == flatContent(reply)
      hits == { i \in 1..Len(content) : content[i].type = "output_text" }
      first == CHOOSE i \in hits : \A j \in hits : i <= j
  IN IF hits = {} THEN [threw |-> TRUE, text |-> ""]
     ELSE IF content[first].text = "" THEN [threw |-> TRUE, text |-> ""]
     ELSE reserialize(content[first].text)

\* openai.responses.create (Express) and callOpenAI (Pages) followed by
\* extractStructuredResponse: both throw unless a response object arrives
structuredOf(reply) ==
  IF reply.kind # "response" THEN [threw |-> TRUE, text |-> ""]
  ELSE extractStructuredResponse(reply)

ErrorBody == "{error}"

Request(id, deployment, endpoint, body, pc, openAiCalls) ==
  [id |-> id, deployment |-> deployment, endpoint |-> endpoint, body |-> body,
   pc |-> pc, openAiCalls |-> openAiCalls]

\* a request with its response: `sent` counts the responses written
Answered(r, status, text, reply) ==
  [id |-> r.id, deployment |-> r.deployment, endpoint |-> r.endpoint,
   body |-> r.body, openAiCalls |-> r.openAiCalls, sent |-> 1,
   status |-> status, text |-> text, reply |-> reply]

\* the test in front of the 400 of each endpoint
bodyRefused(endpoint, body) ==
  IF endpoint = "semantic-score"
    THEN destructure(body).jdText.type # "string"
           \/ destructure(body).resumeText.type # "string"
    ELSE destructure(body).jdText.type # "string"
           \/ Len(trim(destructure(body).jdText.value)) < MinJdLength

payloadOf(endpoint, body) ==
  IF endpoint = "semantic-score"
    THEN buildSemanticScorePayload(body.jdText, body.resumeText, body.keywords)
    ELSE buildKeywordExtractionPayload(body.jdText)

respond(r, status, text, reply) ==
  /\ answered' = <<Answered(r, status, text, reply)>>
  /\ inFlight' = inFlight \ {r}

\* the handler from the destructuring of the body to the await of OpenAI
handleBody(r) ==
  IF bodyRefused(r.endpoint, r.body)
    THEN respond(r, 400, ErrorBody, <<>>)
  ELSE IF payloadOf(r.endpoint, r.body).threw
    THEN respond(r, 502, ErrorBody, <<>>)
  ELSE /\ inFlight' = (inFlight \ {r}) \cup {[r EXCEPT !.pc = "openai", !.openAiCalls = @ + 1]}
       /\ UNCHANGED answered

MaxRequests == 2

nonServerVars ==
  <<SYNONYM_LOOKUP, halfUp, phase, jdText, limit, jdRanked, jdKeywords,
    resumeText, keywords, analysis, calls, appVars>>

\* app.post(...) of the Express server and onRequestPost of the Pages
\* function, up to the first await
onRequestPost(deployment, endpoint, body) ==
  /\ phase = "server"
  /\ arrived < MaxRequests
  /\ arrived' = arrived + 1
  /\ IF ~openAiKey
       THEN respond(Request(arrived', deployment, endpoint, body, "start", 0),
                    500, ErrorBody, <<>>)
     ELSE IF deployment = "pages"
       THEN /\ inFlight' = inFlight \cup
                 {Request(arrived', deployment, endpoint, body, "json", 0)}
            /\ UNCHANGED answered
     ELSE handleBody(Request(arrived', deployment, endpoint, body, "start", 0))
  /\ UNCHANGED <<nonServerVars, openAiKey>>

\* `body = await request.json()` of the Pages function settles
requestJsonSettles(r) ==
  /\ phase = "server"
  /\ r.pc = "json"
  /\ IF r.body.kind = "malformed"
       THEN respond(r, 400, ErrorBody, <<>>)
       ELSE handleBody(r)
  /\ UNCHANGED <<nonServerVars, openAiKey, arrived>>

\* the await of OpenAI settles; the rest of the try block and the catch
openAiSettles(r, reply) ==
  /\ phase = "server"
  /\ r.pc = "openai"
  /\ IF structuredOf(reply).threw
       THEN respond(r, 502, ErrorBody, <<reply>>)
       ELSE respond(r, 200, structuredOf(reply).text, <<reply>>)
  /\ UNCHANGED <<nonServerVars, openAiKey, arrived>>

Deployments == {"express", "pages"}
Endpoints == {"semantic-score", "semantic-keywords"}

\* JD texts of 40 and of 39 characters, one of 51 with 11 between its spaces
Jd40 == "Senior React engineer, SQL and AWS, Kiel"
Jd39 == SubSeq(Jd40, 1, MinJdLength - 1)
PaddedJd == "                    SQL and AWS                    "

OneKeyword == <<"keyword">>
FifteenKeywords == [i \in 1..(DigestLength + 1) |-> IF i > DigestLength THEN "null" ELSE "keyword"]

\* express.json() gives the handler a parsed document; a body that is no
\* JSON reaches only the Pages functions, which parse it themselves
ParsedBodies ==
  { NullBody, ArrayBody,
    ObjectBody(Undefined, Undefined, Undefined),
    ObjectBody(Str("SQL"), Num("1"), Undefined),
    ObjectBody(Num("1"), Str("React, SQL"), Arr(OneKeyword)),
    ObjectBody(Str("SQL"), Str("React, SQL"), Undefined),
    ObjectBody(Str("SQL"), Str(""), Str("React")),
    ObjectBody(Str(Jd40), Str("React, SQL"), Arr(OneKeyword)),
    ObjectBody(Str(Jd39), Str("React, SQL"), Arr(<<>>)),
    ObjectBody(Str(PaddedJd), Str("React, SQL"), Arr(FifteenKeywords)),
    ObjectBody(Str(Jd40), Str("React, SQL"), Arr(<<"keyword", "null">>)) }

bodiesOf(deployment) ==
  IF deployment = "pages" THEN ParsedBodies \cup {MalformedBody} ELSE ParsedBodies

InitServer ==
  /\ SYNONYM_LOOKUP = buildSynonymMap
  /\ halfUp = TRUE
  /\ phase = "server"
  /\ jdText = "" /\ limit = 0 /\ jdRanked = <<>> /\ jdKeywords = <<>>
  /\ resumeText = "" /\ keywords = <<>> /\ analysis = NoAnalysis
  /\ calls = <<>>
  /\ AppInitial
  /\ openAiKey \in BOOLEAN
  /\ inFlight = {}
  /\ answered = <<>>
  /\ arrived = 0

NextServer ==
  \/ \E deployment \in Deployments, endpoint \in Endpoints :
       \E body \in bodiesOf(deployment) : onRequestPost(deployment, endpoint, body)
  \/ \E r \in inFlight : requestJsonSettles(r)
  \/ \E r \in inFlight, reply \in AiReplies : openAiSettles(r, reply)

SpecServer == InitServer /\ [][NextServer]_vars

-----------------------------------------------------------------------------
(* Properties of analyzeResume, over SpecResume                            *)

Abs(x) == IF x < 0 THEN -x ELSE x

\* the elements of seq at the indexes in idxs, in order
selectAt(seq, idxs) ==
  Fold(LAMBDA i, acc : IF i \in idxs THEN Append(acc, seq[i]) ELSE acc,
       1, Len(seq), <<>>)

\* what a KeywordMatch copies from its KeywordInsight
insightFacts(kw) ==
  <<kw.canonical, kw.label, kw.occurrences, kw.importance, kw.section, kw.source>>
matchFacts(m) ==
  <<m.canonical, m.label, m.jdOccurrences, m.importance, m.section, m.source>>

\* text with every occurrence of `from` replaced by `to` (from is not empty)
RECURSIVE replaceAll(_, _, _)
replaceAll(text, from, to) ==
  LET starts == { i \in 1..(Len(text) - Len(from) + 1) :
                    SubSeq(text, i, i + Len(from) - 1) = from }
  IN IF starts = {} THEN text
     ELSE LET at == CHOOSE i \in starts : \A j \in starts : i <= j
          IN SubSeq(text, 1, at - 1) \o to
               \o replaceAll(SubSeq(text, at + Len(from), Len(text)), from, to)

mentions(text, word) == replaceAll(text, word, "") # text

\* where a result puts the keywords of one canonical key, and with how many hits
placementOf(result, canonical) ==
  [matched |-> SeqFilter(SeqMap(result.matchedKeywords, LAMBDA m : <<m.canonical, m.resumeHits>>),
                         LAMBDA f : f[1] = canonical),
   missing |-> SeqFilter(SeqMap(result.missingKeywords, LAMBDA m : <<m.canonical, m.resumeHits>>),
                         LAMBDA f : f[1] = canonical)]

\* C1: for every resume text and keyword list (empty or not, importance above
\* 1 and at 0 included) the score analyzeResume returns lies in 0..100
C1_ScoreBound ==
  phase = "resume-done" => analysis.score >= 0 /\ analysis.score <= 100

\* a positive score with a matched keyword of importance above 1
C1_Witness ==
  /\ phase = "resume-done"
  /\ analysis.score > 0
  /\ \E i \in 1..Len(analysis.matchedKeywords) :
       analysis.matchedKeywords[i].importance > 1000

\* C2: every input keyword gives exactly one KeywordMatch, in matchedKeywords
\* iff its resumeHits > 0 and in missingKeywords iff its resumeHits = 0: the
\* two lists are disjoint, keep the input order, and their lengths add up to
\* the length of the keyword list
C2_Partition ==
  phase = "resume-done" =>
    LET matched == analysis.matchedKeywords
        missing == analysis.missingKeywords
        all == 1..Len(keywords)
    IN /\ \A i \in 1..Len(matched) : matched[i].resumeHits > 0
       /\ \A i \in 1..Len(missing) : missing[i].resumeHits = 0
       /\ Len(matched) + Len(missing) = Len(keywords)
       /\ \A i \in 1..Len(matched) : \A j \in 1..Len(missing) : matched[i] # missing[j]
       /\ \E hit \in SUBSET all :
            /\ SeqMap(selectAt(keywords, hit), insightFacts) = SeqMap(matched, matchFacts)
            /\ SeqMap(selectAt(keywords, all \ hit), insightFacts) = SeqMap(missing, matchFacts)

\* a call that fills both lists
C2_Witness ==
  /\ phase = "resume-done"
  /\ analysis.matchedKeywords # <<>>
  /\ analysis.missingKeywords # <<>>

\* C3: for every synonym group with canonical key c and every member m of the
\* group, a resume that consists of m is counted as a hit (resumeHits >= 1)
\* for a keyword whose canonical key is c, whatever the token counts of m and c
C3_SynonymHit ==
  phase = "resume-done" /\ Len(keywords) = 1 =>
    \A g \in 1..Len(SYNONYM_GROUPS) :
      /\ keywords[1].canonical = normalizeTerm(SYNONYM_GROUPS[g][1])
      /\ resumeText \in Range(SYNONYM_GROUPS[g])
      => /\ Len(analysis.matchedKeywords) = 1
         /\ analysis.matchedKeywords[1].resumeHits >= 1

C6_ScoreFormula ==
  phase = "resume-done" =>
    LET matched == analysis.matchedKeywords
        count == IF Len(keywords) = 0 THEN 1 ELSE Len(keywords)
        sum == sumOf(SeqMap(keywords, LAMBDA kw : kw.importance))
        total == IF sum = 0 THEN 1000 ELSE sum
        covered == sumOf(SeqMap(matched, LAMBDA m : m.importance))
        occ(m) == IF m.jdOccurrences < 1 THEN 1 ELSE m.jdOccurrences
        common == productOf(SeqMap(matched, occ))
        dense == sumOf(SeqMap(matched, LAMBDA m :
                   (IF m.resumeHits < occ(m) THEN m.resumeHits ELSE occ(m))
                     * (common \div occ(m))))
        D == total * common * count
        N == 60 * covered * common * count
               + 30 * dense * total
               + 10 * Len(matched) * total * common
    IN \E r \in 0..200 :
         /\ 2 * Abs(r * D - N) <= D
         /\ analysis.score = IF r > 100 THEN 100 ELSE r

\* one keyword of two matched, with fewer hits than the JD's occurrences
C6_Witness ==
  /\ phase = "resume-done"
  /\ Len(keywords) = 2
  /\ Len(analysis.matchedKeywords) = 1
  /\ analysis.matchedKeywords[1].resumeHits < analysis.matchedKeywords[1].jdOccurrences
  /\ analysis.score > 0 /\ analysis.score < 100

\* C7: an empty keyword list gives score 0, no matched or missing keyword and
\* no suggestion; a resume without a token and a non-empty keyword list give
\* score 0, no matched keyword and every keyword among the missing
C7_EmptyInputs ==
  phase = "resume-done" =>
    /\ keywords = <<>> =>
         /\ analysis.score = 0
         /\ analysis.matchedKeywords = <<>>
         /\ analysis.missingKeywords = <<>>
         /\ analysis.suggestions = <<>>
    /\ /\ keywords # <<>>
       /\ \A i \in 1..Len(resumeText) : toLowerChar(CharAt(resumeText, i)) \notin TokenStart
       => /\ analysis.score = 0
          /\ analysis.matchedKeywords = <<>>
          /\ SeqMap(analysis.missingKeywords, matchFacts) = SeqMap(keywords, insightFacts)

\* a resume of punctuation only, scored against two keywords
C7_Witness ==
  /\ phase = "resume-done"
  /\ resumeText = "..."
  /\ Len(keywords) = 2
  /\ Len(analysis.missingKeywords) = 2

-----------------------------------------------------------------------------
(* Properties of extractKeywords, over SpecJd                              *)

\* the place of list[p] when the list is put in non-increasing importance
\* order, equal importances staying in the order of the list
rankOf(list, p) ==
  1 + Cardinality({ q \in 1..Len(list) :
                      \/ list[q].importance > list[p].importance
                      \/ list[q].importance = list[p].importance /\ q < p })

\* the up to 5 missing keywords of highest importance, highest first
topMissing(missing) ==
  [k \in 1..Min(5, Len(missing)) |->
     missing[CHOOSE p \in 1..Len(missing) : rankOf(missing, p) = k]]

\* the first up to 2 matched keywords named less often than in the JD
firstUnderused(matched) ==
  SubSeq(selectAt(matched, { i \in 1..Len(matched) :
                               /\ matched[i].resumeHits > 0
                               /\ matched[i].resumeHits < matched[i].jdOccurrences }),
         1, Min(2, Cardinality({ i \in 1..Len(matched) :
                                   /\ matched[i].resumeHits > 0
                                   /\ matched[i].resumeHits < matched[i].jdOccurrences })))

\* a suggestion of the given type for the match m; the weight is
\* importance * 100 rounded (importance is in thousandths)
suggestionFor(suggestion, m, type) ==
  /\ suggestion.type = type
  /\ suggestion.canonical = m.canonical
  /\ suggestion.label = m.label
  /\ suggestion.priority = m.section
  /\ Abs(10 * suggestion.weight - m.importance) <= 5

suggestionsAre(suggestions, adds, expands) ==
  /\ Len(suggestions) = Len(adds) + Len(expands)
  /\ Len(suggestions) <= 7
  /\ \A k \in 1..Len(adds) : suggestionFor(suggestions[k], adds[k], "add")
  /\ \A k \in 1..Len(expands) :
       suggestionFor(suggestions[Len(adds) + k], expands[k], "expand")

\* C23: the suggestions are one 'add' for each of the up to 5 missing
\* keywords of highest importance, in non-increasing importance order (equal
\* importances in list order), then one 'expand' for each of the first up to
\* 2 matched keywords with 0 < resumeHits < jdOccurrences, each with weight
\* round(importance * 100): at most 7, and none for a matched keyword with
\* resumeHits >= jdOccurrences
C23_Suggestions ==
  phase = "resume-done" =>
    \A adds \in {topMissing(analysis.missingKeywords)} :
      \A expands \in {firstUnderused(analysis.matchedKeywords)} :
        suggestionsAre(analysis.suggestions, adds, expands)

\* six missing keywords and three matched less often than the JD names them:
\* seven suggestions, the add of highest importance first, none for react
C23_Witness ==
  /\ phase = "resume-done"
  /\ keywords = SuggestionKeywords
  /\ Len(analysis.missingKeywords) = 6
  /\ Len(analysis.matchedKeywords) = 5
  /\ Len(analysis.suggestions) = 7
  /\ analysis.suggestions[1].canonical = "terraform"
  /\ analysis.suggestions[1].weight \in {99, 100}
  /\ [k \in 6..7 |-> analysis.suggestions[k].canonical] = (6 :> "python" @@ 7 :> "sql")
  /\ \A k \in 1..7 : analysis.suggestions[k].canonical \notin {"react", "java", "ansible"}

\* the number of tokens of a canonical key
tokenCount(canonical) == Len(splitOn(canonical, " "))

\* the occurrence tables of a resume for phrases of 1, 2 and 3 tokens, each
\* with its size; only the sizes some keyword has are built
occurrenceTables(tokens, kws) ==
  { <<size, buildNgramCounts(tokens, size)>> :
      size \in { tokenCount(kws[i].canonical) : i \in 1..Len(kws) } \cap 1..3 }

\* the hits the claim names: the entry of the canonical key in the table of
\* its token count, 0 when it has more than 3 tokens or no entry
statedHits(tables, canonical) ==
  IF tokenCount(canonical) > 3 THEN 0
  ELSE LET table == (CHOOSE t \in tables : t[1] = tokenCount(canonical))[2]
       IN IF canonical \in DOMAIN table THEN table[canonical] ELSE 0

\* the (canonical, hits) pairs of a list of matches, in order
hitsOf(matches) == [i \in 1..Len(matches) |-> <<matches[i].canonical, matches[i].resumeHits>>]

\* the keywords with the hits stated for them, as (position, key, hits)
statedMatches(kws, tables) ==
  { <<i, kws[i].canonical, statedHits(tables, kws[i].canonical)>> : i \in 1..Len(kws) }

\* the pairs of the stated matches that satisfy Keep, in the order of the list
statedPart(stated, Keep(_)) ==
  LET kept == { m \in stated : Keep(m[3]) }
      nth(k) == CHOOSE m \in kept : Cardinality({ o \in kept : o[1] < m[1] }) = k - 1
  IN [k \in 1..Cardinality(kept) |-> <<nth(k)[2], nth(k)[3]>>]

lookedUp(kws, tables, result) ==
  \A stated \in {statedMatches(kws, tables)} :
    /\ hitsOf(result.missingKeywords) = statedPart(stated, LAMBDA h : h = 0)
    /\ hitsOf(result.matchedKeywords) = statedPart(stated, LAMBDA h : h > 0)

\* C24: each keyword's hits are looked up in the occurrence table for the
\* token count of its canonical key (1, 2 or 3); a keyword whose key has more
\* than 3 tokens, or no entry in its table, gets resumeHits = 0 and is among
\* the missing keywords, and the call returns a result
C24_LookupByLength ==
  phase = "resume-done" =>
    /\ analysis # NoAnalysis
    /\ \A tokens \in {tokenize(resumeText)} :
         \A tables \in {occurrenceTables(tokens, keywords)} :
           lookedUp(keywords, tables, analysis)

\* a resume that holds the four words of a keyword and one other keyword:
\* the keyword of four words is missing, the other is matched
C24_Witness ==
  /\ phase = "resume-done"
  /\ resumeText \in LongPhraseResumes
  /\ mentions(toLowerCase(resumeText), "full stack web development")
  /\ Len(keywords) = 2
  /\ keywords[1].canonical = "full stack web development"
  /\ hitsOf(analysis.missingKeywords) = << <<"full stack web development", 0>> >>
  /\ hitsOf(analysis.matchedKeywords) = << <<"python", 1>> >>

\* the tiers a list gives to the keywords of one canonical key
sectionsOf(list, canonical) ==
  { list[i].section : i \in { j \in 1..Len(list) : list[j].canonical = canonical } }

\* the canonical keys recorded from one fragment
termsOfFragment(fragment) ==
  LET recorded == collectFragment(fragment, <<>>)
  IN { recorded[i].canonical : i \in 1..Len(recorded) }

\* C5, as stated: for the one-line JD text of the scenario, react is returned
\* with section core, agile with section responsibility and aws with section
\* preferred
C5_AsStated ==
  phase = "jd-done" /\ jdText = ScenarioOneLine /\ limit = DefaultLimit =>
    /\ sectionsOf(jdKeywords, "react") = {"core"}
    /\ sectionsOf(jdKeywords, "agile") = {"responsibility"}
    /\ sectionsOf(jdKeywords, "aws") = {"preferred"}

\* C5, amended: tiers are given per line.  Every returned keyword carries the
\* tier of a line (fragment) it was recorded from: the line's inline marker
\* or else the heading in force.  The scenario's text is one line of more
\* than 80 characters, so no heading is read and its inline "Must" makes the
\* line core: react, agile and aws are all returned with section core.  With
\* each heading on a line of its own, react is core, agile responsibility and
\* aws preferred.
C5_TierOfLine ==
  phase = "jd-done" =>
    /\ limit = DefaultLimit =>
         \A recorded \in { UNION { { <<f.section, c>> : c \in termsOfFragment(f) } :
                                    f \in Range(splitIntoFragments(jdText)) } } :
           \A i \in 1..Len(jdKeywords) :
             <<jdKeywords[i].section, jdKeywords[i].canonical>> \in recorded
    /\ jdText = ScenarioOneLine /\ limit = DefaultLimit =>
         /\ sectionsOf(jdKeywords, "react") = {"core"}
         /\ sectionsOf(jdKeywords, "agile") = {"core"}
         /\ sectionsOf(jdKeywords, "aws") = {"core"}
    /\ jdText = ScenarioByLine /\ limit = DefaultLimit =>
         /\ sectionsOf(jdKeywords, "react") = {"core"}
         /\ sectionsOf(jdKeywords, "agile") = {"responsibility"}
         /\ sectionsOf(jdKeywords, "aws") = {"preferred"}

\* the one-line scenario has been extracted, and agile came back as core
C5_Witness ==
  /\ phase = "jd-done"
  /\ jdText = ScenarioOneLine
  /\ limit = DefaultLimit
  /\ sectionsOf(jdKeywords, "agile") = {"core"}
  /\ sectionsOf(jdKeywords, "aws") = {"core"}

\* the lines splitIntoFragments walks over: trimmed, the empty ones dropped
contentLines(text) == SeqFilter(SeqMap(splitLines(text), trim), LAMBDA l : l # "")

\* the heading patterns a line matches, and whether it counts as a heading
headingsMatched(line) ==
  { p \in 1..Len(HEADING_PATTERNS) : testAny(line, HEADING_PATTERNS[p].alternatives) }
isHeadingLine(line) == Len(line) <= MaxHeadingLength /\ headingsMatched(line) # {}
tierOfHeading(line) ==
  HEADING_PATTERNS[CHOOSE p \in headingsMatched(line) :
                     \A q \in headingsMatched(line) : p <= q].section

\* the positions of the heading lines
headingLines(lines) == { j \in 1..Len(lines) : isHeadingLine(lines[j]) }

\* the tier in force at line i: that of the last heading line before it
headingsBefore(headings, i) == { j \in headings : j < i }
tierInForce(lines, headings, i) ==
  IF headingsBefore(headings, i) = {} THEN "general"
  ELSE tierOfHeading(lines[CHOOSE j \in headingsBefore(headings, i) :
                             \A k \in headingsBefore(headings, i) : k <= j])

\* the lines that are no headings, in order
bodyLines(lines, headings) ==
  SeqFilter([i \in 1..Len(lines) |-> i], LAMBDA i : i \notin headings)

segmented(lines, headings, fragments, body) ==
  /\ Len(fragments) = Len(body)
  /\ \A k \in 1..Len(body) :
       /\ fragments[k].id = k - 1
       /\ fragments[k].content = lines[body[k]]
       /\ \A inline \in {detectInlinePriority(lines[body[k]])} :
            fragments[k].section =
              (IF inline # "none" THEN inline ELSE tierInForce(lines, headings, body[k]))

\* C18: segmentation is a state machine over the lines.  The tier in force
\* starts as general; a line of at most 80 characters that matches a heading
\* pattern sets it and yields no fragment, even if it holds an inline marker;
\* every other line yields exactly one fragment, whose tier is that of its
\* inline marker if it has one and else the tier in force; an inline marker
\* never changes the tier of a later fragment.  The limit does not enter the
\* segmentation, so every text is looked at under the default limit.
C18_Segmentation ==
  phase = "jd-done" /\ limit = DefaultLimit =>
    \A lines \in {contentLines(jdText)}, fragments \in {splitIntoFragments(jdText)} :
      \A headings \in {headingLines(lines)} :
        \A body \in {bodyLines(lines, headings)} :
          segmented(lines, headings, fragments, body)

\* an inline core line, then a plain line that stays general, then a
\* heading that holds an inline marker and yields no fragment, then a line
\* that takes the tier of the heading
C18_Witness ==
  /\ phase = "jd-done"
  /\ jdText = SegmentedText
  /\ Len(contentLines(jdText)) = 4
  /\ detectInlinePriority(contentLines(jdText)[3]) = "preferred"
  /\ isHeadingLine(contentLines(jdText)[3])
  /\ [k \in 1..3 |-> splitIntoFragments(jdText)[k].section] = <<"core", "general", "preferred">>
  /\ Len(splitIntoFragments(jdText)) = 3

\* the statistics extractKeywords has gathered when its loop ends
statsOfText(text) == collectStats(splitIntoFragments(text))

\* the tier the claim names: the largest accumulated weight, and of several
\* such the first of core, responsibility, preferred, general
statedDominant(w) ==
  IF w.core >= w.responsibility /\ w.core >= w.preferred /\ w.core >= w.general
    THEN "core"
  ELSE IF w.responsibility >= w.preferred /\ w.responsibility >= w.general
    THEN "responsibility"
  ELSE IF w.preferred >= w.general THEN "preferred"
  ELSE "general"

dominantEverywhere(statsArray, ranked) ==
  /\ Len(ranked) = Len(statsArray)
  /\ \A i \in 1..Len(statsArray) :
       sectionsOf(ranked, statsArray[i].canonical)
         = {statedDominant(statsArray[i].sectionWeights)}

\* C19: the tier of a keyword is the tier in which it has accumulated the
\* largest weight; when several tiers share the largest weight it is the
\* first of them in the order core, responsibility, preferred, general
C19_DominantTier ==
  phase = "jd-done" =>
    \A statsArray \in {statsOfText(jdText)} : dominantEverywhere(statsArray, jdRanked)

\* git has the weight 4 both as preferred and as responsibility and comes
\* back as responsibility, though it was met under the preferred heading
\* first; its bigram, heavier as preferred, comes back as preferred
C19_Witness ==
  /\ phase = "jd-done"
  /\ jdText = TiedText
  /\ \E i \in 1..Len(statsOfText(jdText)) :
       /\ statsOfText(jdText)[i].canonical = "git"
       /\ statsOfText(jdText)[i].sectionWeights.preferred = 4000
       /\ statsOfText(jdText)[i].sectionWeights.responsibility = 4000
  /\ sectionsOf(jdRanked, "git") = {"responsibility"}
  /\ sectionsOf(jdRanked, "git git") = {"preferred"}

\* the canonical key recordTerm files a term under, "" when it drops the term
canonicalKey(term) ==
  IF normalizeTerm(term) = "" \/ Len(normalizeTerm(term)) < 3 THEN ""
  ELSE IF isGenericTerm(normalizeTerm(term)) THEN ""
  ELSE IF lookupHas(normalizeTerm(term)) THEN SYNONYM_LOOKUP[normalizeTerm(term)].canonical
  ELSE normalizeTerm(term)

\* the keys of the kept tokens (size 1) or phrases (size 2, 3) of a token list
keysOfSize(tokens, size) ==
  [i \in 1..Len(tokens) |->
     IF size = 1
       THEN (IF shouldKeepToken(tokens[i]) THEN canonicalKey(tokens[i]) ELSE "")
       ELSE (IF buildPhrase(tokens, i, size) # ""
               THEN canonicalKey(buildPhrase(tokens, i, size)) ELSE "")]

keysOfTokens(section, tokens) ==
  [section |-> section,
   keys |-> [size \in 1..3 |-> keysOfSize(tokens, size)]]

\* for every fragment its tier and the keys recorded from it
keyTable(fragments) ==
  [f \in 1..Len(fragments) |->
     keysOfTokens(fragments[f].section, tokenize(fragments[f].content))]

\* the weights the claim names, in units of 0.005: a tier weight of 1.2, 1,
\* 0.8 or 0.7, once for a single word, 1.1 times for a phrase of two and
\* 1.15 times for a phrase of three
statedTierWeight(section) ==
  CASE section = "core" -> 240
    [] section = "responsibility" -> 200
    [] section = "preferred" -> 160
    [] section = "general" -> 140
statedBoost(size) == CASE size = 1 -> 100 [] size = 2 -> 110 [] size = 3 -> 115

timesRecorded(keys, canonical) ==
  Cardinality({ i \in 1..Len(keys) : keys[i] = canonical })

\* the weight a canonical key accumulates over the table
statedWeighted(table, canonical) ==
  sumOf([n \in 1..(3 * Len(table)) |->
           LET f == ((n - 1) \div 3) + 1
               size == ((n - 1) % 3) + 1
           IN (statedTierWeight(table[f].section) * statedBoost(size)
                 * timesRecorded(table[f].keys[size], canonical)) \div 100])

\* 2 * maxWeighted times the distance of importance (in thousandths) from
\* weighted / maxWeighted * tierWeight * phraseBoost is at most maxWeighted,
\* that is the distance is at most half a thousandth; 1 when that is above 1
statedImportance(kw, weighted, maxWeighted) ==
  IF weighted * (statedTierWeight(kw.section) \div 20)
       * (IF kw.source = "phrase" THEN 21 ELSE 20) >= maxWeighted * 200
    THEN kw.importance = 1000
    ELSE Abs(2 * maxWeighted * kw.importance
               - 10 * weighted * (statedTierWeight(kw.section) \div 20)
                    * (IF kw.source = "phrase" THEN 21 ELSE 20)) <= maxWeighted

importancesAsStated(ranked, weights) ==
  \A i \in 1..Len(ranked) : statedImportance(ranked[i], weights[i], maxOf(weights))

weightsOf(ranked, table) ==
  [i \in 1..Len(ranked) |-> statedWeighted(table, ranked[i].canonical)]

\* C20: every occurrence of a term adds the weight of the tier of its line
\* to the term, 1.1 times that weight for a phrase of two words and 1.15
\* times for a phrase of three; the importance of a keyword is
\* min(1, weighted / maxWeighted * tierWeight(dominant tier) * b), b being
\* 1.05 for a phrase and 1 for a word, rounded to three decimals
C20_Importance ==
  phase = "jd-done" /\ jdRanked # <<>> =>
    \A table \in {keyTable(splitIntoFragments(jdText))} :
      \A weights \in {weightsOf(jdRanked, table)} :
        importancesAsStated(jdRanked, weights)

\* words, bigrams and trigrams of a core line and of a general line: a
\* keyword cut off at 1, and a phrase and a word below 1
C20_Witness ==
  /\ phase = "jd-done"
  /\ \E i \in 1..Len(jdRanked) :
       jdRanked[i].importance = 1000 /\ jdRanked[i].section = "core"
  /\ \E i \in 1..Len(jdRanked) :
       /\ jdRanked[i].source = "phrase"
       /\ Len(splitOn(jdRanked[i].canonical, " ")) = 3
       /\ jdRanked[i].importance < 1000 /\ jdRanked[i].importance > 0
  /\ \E i \in 1..Len(jdRanked) :
       /\ jdRanked[i].source = "phrase"
       /\ Len(splitOn(jdRanked[i].canonical, " ")) = 2
       /\ jdRanked[i].importance < 1000
  /\ \E i \in 1..Len(jdRanked) :
       /\ jdRanked[i].source = "term"
       /\ jdRanked[i].section = "general"
       /\ jdRanked[i].importance < 1000

\* C8: every returned KeywordInsight has 0 <= importance <= 1 and
\* 0 <= coverage <= 1 (importance in thousandths, coverage as a fraction)
C8_InsightBounds ==
  phase = "jd-done" =>
    \A i \in 1..Len(jdKeywords) :
      /\ jdKeywords[i].importance >= 0
      /\ jdKeywords[i].importance <= 1000
      /\ jdKeywords[i].coverage.den > 0
      /\ jdKeywords[i].coverage.num >= 0
      /\ jdKeywords[i].coverage.num <= jdKeywords[i].coverage.den

\* a core keyword at importance 1 (1.2 before the clamp) beside a keyword of
\* lower importance that is not on every line
C8_Witness ==
  /\ phase = "jd-done"
  /\ \E i \in 1..Len(jdKeywords) :
       jdKeywords[i].importance = 1000 /\ jdKeywords[i].section = "core"
  /\ \E i \in 1..Len(jdKeywords) :
       /\ jdKeywords[i].importance < 1000
       /\ jdKeywords[i].coverage.num < jdKeywords[i].coverage.den

\* C9: when there is at least one candidate and limit >= 1, the largest
\* importance among all candidates is the importance of the first keyword
\* returned
C9_MaxSurvives ==
  phase = "jd-done" /\ jdRanked # <<>> /\ limit >= 1 =>
    /\ jdKeywords # <<>>
    /\ \A i \in 1..Len(jdRanked) : jdRanked[i].importance <= jdKeywords[1].importance
    /\ \E i \in 1..Len(jdRanked) : jdRanked[i].importance = jdKeywords[1].importance

\* both filters have dropped candidates, of several importances
C9_Witness ==
  /\ phase = "jd-done"
  /\ limit >= 1
  /\ Len(coverageFilter(jdRanked)) < Len(jdRanked)
  /\ Len(percentileFilter(coverageFilter(jdRanked))) < Len(coverageFilter(jdRanked))
  /\ jdRanked[Len(jdRanked)].importance < jdRanked[1].importance

\* the keywords the coverage filter names: coverage > 0.45 and importance < 0.4
lowCoverage(list) ==
  { i \in 1..Len(list) :
      100 * list[i].coverage.num > 45 * list[i].coverage.den /\ list[i].importance < 400 }

\* the importance at position k, counted from 0, of the importances in
\* ascending order
rankValue(list, k) ==
  CHOOSE x \in { list[i].importance : i \in 1..Len(list) } :
    /\ Cardinality({ i \in 1..Len(list) : list[i].importance < x }) <= k
    /\ k < Cardinality({ i \in 1..Len(list) : list[i].importance <= x })

\* four times the 25th percentile of the importances by linear interpolation:
\* position (n - 1) / 4 lies between two neighbours of the ascending order
statedPercentile(list) ==
  IF list = <<>> THEN 0
  ELSE (4 - ((Len(list) - 1) % 4)) * rankValue(list, (Len(list) - 1) \div 4)
         + ((Len(list) - 1) % 4)
             * rankValue(list, Min(((Len(list) - 1) \div 4) + 1, Len(list) - 1))

\* the keywords the percentile filter names, floor being four times the bound
belowFloor(list, floor) == { i \in 1..Len(list) : 4 * list[i].importance < floor }

\* a filter removes the keywords it names, or is skipped when it does not
\* apply or would leave fewer than 5
afterFilter(list, applies, removed) ==
  IF applies /\ Len(list) - Cardinality(removed) >= 5
    THEN selectAt(list, (1..Len(list)) \ removed)
    ELSE list

\* C21: the coverage filter applies to more than 10 candidates and removes
\* exactly those with coverage > 0.45 and importance < 0.4; the percentile
\* filter applies when more than 12 remain and removes exactly those with
\* importance < max(25th percentile by linear interpolation, 0.25); a filter
\* that would leave fewer than 5 keywords is skipped and the list stays; the
\* result is the first `limit` of what remains and so has at least
\* min(5, number of candidates, limit) keywords
C21_Refinement ==
  phase = "jd-done" =>
    \A dropped \in {lowCoverage(jdRanked)} :
      \A first \in {afterFilter(jdRanked, Len(jdRanked) > 10, dropped)} :
        \A floor \in {Max(statedPercentile(first), 1000)} :
          \A second \in {afterFilter(first, Len(first) > 12, belowFloor(first, floor))} :
            /\ jdKeywords = SubSeq(second, 1, Min(limit, Len(second)))
            /\ Len(jdKeywords) >= Min(5, Min(Len(jdRanked), limit))

\* eighteen candidates of which the coverage filter would leave three and the
\* percentile filter three: both are skipped and all eighteen are returned
C21_Witness ==
  /\ phase = "jd-done"
  /\ jdText = DominatedText
  /\ limit = DefaultLimit
  /\ Len(jdRanked) = 18
  /\ Cardinality(lowCoverage(jdRanked)) = 15
  /\ Cardinality(belowFloor(jdRanked, Max(statedPercentile(jdRanked), 1000))) = 15
  /\ Len(jdKeywords) = 18

\* the keywords of `refined` that the truncation to `returned` leaves out
leftOut(refined, returned) ==
  { refined[i] : i \in (Len(returned) + 1)..Len(refined) }

\* C22: the returned list has at most `limit` entries, is ordered by
\* non-increasing importance, has pairwise distinct canonical keys, and no
\* keyword left out by the final truncation has a strictly larger importance
\* than a returned one
C22_TopByImportance ==
  phase = "jd-done" =>
    /\ Len(jdKeywords) <= limit
    /\ \A i \in 1..(Len(jdKeywords) - 1) :
         jdKeywords[i].importance >= jdKeywords[i + 1].importance
    /\ \A i \in 1..Len(jdKeywords) : \A j \in 1..Len(jdKeywords) :
         jdKeywords[i].canonical = jdKeywords[j].canonical => i = j
    /\ \A out \in leftOut(refineKeywords(jdRanked), jdKeywords) :
         \A j \in 1..Len(jdKeywords) : out.importance <= jdKeywords[j].importance

\* twelve keywords of several importances returned and others left out
C22_Witness ==
  /\ phase = "jd-done"
  /\ limit = 12
  /\ Len(jdKeywords) = 12
  /\ leftOut(refineKeywords(jdRanked), jdKeywords) # {}
  /\ jdKeywords[12].importance < jdKeywords[1].importance

-----------------------------------------------------------------------------
(* Properties of calls in sequence, over SpecCalls                         *)

sameCall(a, b) ==
  a.fn = b.fn /\ a.text = b.text /\ a.limit = b.limit /\ a.keywords = b.keywords

-----------------------------------------------------------------------------
(* Properties of the upload handlers, over SpecApp                         *)

\* the invocation that took the last step, as it waits now
lastUploadNow == { p \in pending : lastEvent.upload # <<>> /\ p.id = lastEvent.upload[1].id }

justScored == lastEvent.handler = "resume" /\ lastEvent.step = "parsed"

jdPanel == <<jdKeywords, jdFileName, jdDocumentText, usingAISource>>

\* C12: no step of a resume upload (ignored, started, read and scored,
\* failed, finished with or without a semantic result) changes jdKeywords,
\* jdFileName, jdDocumentText or usingAISource; a step that changes one of
\* them is a step of a JD upload or of the reset
C12_ResumeFrame ==
  [][ /\ lastEvent'.handler = "resume" => UNCHANGED jdPanel
      /\ jdPanel' # jdPanel => lastEvent'.handler \in {"jd", "reset"} ]_vars

\* a resume upload has finished on the heuristic score, the service having
\* failed, with a JD loaded from the service
C12_Witness ==
  /\ lastEvent.handler = "resume" /\ lastEvent.step = "finished"
  /\ lastEvent.reply \in {<<FetchFailed>>, <<Response(500, NoBody)>>}
  /\ usingAISource
  /\ jdFileName = "role.PDF"
  /\ jdDocumentText # ""
  /\ Len(jdKeywords) = 2

\* the service gave no usable answer: no request was sent (a blank text),
\* fetch failed, or the response was not OK
unavailable(reply) ==
  \/ reply = NotSent
  \/ reply.kind = "failed"
  \/ reply.kind = "response" /\ ~responseOk(reply)

\* the insight shows the heuristic result `result` and nothing semantic
showsHeuristic(insight, result) ==
  /\ insight.score = result.score
  /\ insight.matchedKeywords = result.matchedKeywords
  /\ insight.missingKeywords = result.missingKeywords
  /\ insight.summary = result.summary
  /\ insight.suggestions = result.suggestions
  /\ insight.semanticScore = <<>>
  /\ insight.aiSuggestions = <<>>

resumeFellBack(p, reply) ==
  /\ semanticResultOf(p, reply) = <<>>
  /\ resumeInsights # <<>>
  /\ showsHeuristic(resumeInsights[1], analyzeResume(p.content, p.captured))

jdFellBack(p, reply) ==
  /\ requestSemanticKeywords(p.content, reply) = <<>>
  /\ IF lastEvent.step = "finished"
       THEN /\ jdKeywords = extractKeywords(p.content, DefaultLimit)
            /\ jdKeywords # <<>>
            /\ ~usingAISource
       ELSE extractKeywords(p.content, DefaultLimit) = <<>>

\* C13: when the semantic service is unavailable (status 500, any other
\* status that is not OK, a failed fetch, a blank text) the client returns
\* null and the handler goes on: the resume result shown is the score,
\* matched and missing keywords, summary and suggestions of analyzeResume,
\* and the JD keywords are extractKeywords(content)
C13_Fallback ==
  lastEvent.reply # <<>> /\ unavailable(lastEvent.reply[1]) =>
    /\ lastEvent.handler = "resume" =>
         lastEvent.step = "finished"
           /\ resumeFellBack(lastEvent.upload[1], lastEvent.reply[1])
    /\ lastEvent.handler = "jd" => jdFellBack(lastEvent.upload[1], lastEvent.reply[1])

\* with the server answering 500 a JD was loaded from extractKeywords and a
\* resume, scored against it, shows the heuristic score
C13_Witness ==
  /\ lastEvent.handler = "resume" /\ lastEvent.step = "finished"
  /\ lastEvent.reply = <<Response(500, NoBody)>>
  /\ ~usingAISource
  /\ jdKeywords = extractKeywords(jdDocumentText, DefaultLimit)
  /\ resumeInsights[1].score > 0
  /\ resumeInsights[1].matchedKeywords # <<>>

\* Math.round(0.4 * semanticScore + 0.6 * analysis.score), the semantic score
\* in tenths
statedBlend(analysisScore, semanticTenths) ==
  RoundDiv(4 * semanticTenths + 60 * analysisScore, 100)

\* C14: when the service returned an assessment, the score shown is the
\* rounded blend of 40% of the semantic score and 60% of the rule-based score
C14_BlendedScore ==
  lastEvent.handler = "resume" /\ lastEvent.step = "finished"
    /\ semanticResultOf(lastEvent.upload[1], lastEvent.reply[1]) # <<>>
  => resumeInsights[1].score =
       statedBlend(lastEvent.upload[1].analysis[1].score,
                   lastEvent.reply[1].body.semanticScore)

jdJustLoaded == lastEvent.handler = "jd" /\ lastEvent.step = "finished"

\* the requirement list of a reply as the client hands it on: <<>> when the
\* client returns null
requirementsOf(text, reply) ==
  IF requestSemanticKeywords(text, reply) = <<>> THEN <<>>
  ELSE requestSemanticKeywords(text, reply)[1].requirements

\* the tier the claim gives to a priority label of the service
statedTier(priority) ==
  CASE priority = "must-have" -> "core"
    [] priority = "responsibility" -> "responsibility"
    [] priority = "preferred" -> "preferred"
    [] priority = "baseline" -> "general"
    [] OTHER -> "general"

\* insight is requirement item with importance max(weightPercent / 100, 0.4)
\* (in thousandths) and the stated tier
fromRequirement(insight, item) ==
  /\ insight.label = item.label
  /\ insight.importance = (IF item.weightPercent >= 40 THEN item.weightPercent * 10 ELSE 400)
  /\ insight.section = statedTier(item.priority)
  /\ insight.occurrences = 1
  /\ insight.source = "phrase"

fromService(list, requirements) ==
  /\ Len(list) = Len(requirements)
  /\ \A i \in 1..Len(list) : fromRequirement(list[i], requirements[i])

\* C15: when a JD has been loaded, its keyword list comes from the semantic
\* service exactly when the service returned a non-empty requirement list,
\* and usingAISource is true exactly then; each keyword is then one
\* requirement, in order, with importance max(weightPercent / 100, 0.4) and
\* the tier of its priority label (general for an unknown label); otherwise
\* the list is extractKeywords(content)
C15_KeywordSource ==
  jdJustLoaded =>
    /\ usingAISource = (requirementsOf(lastEvent.upload[1].content, lastEvent.reply[1]) # <<>>)
    /\ IF usingAISource
         THEN fromService(jdKeywords,
                          requirementsOf(lastEvent.upload[1].content, lastEvent.reply[1]))
         ELSE jdKeywords = extractKeywords(lastEvent.upload[1].content, DefaultLimit)

\* a JD loaded from the service: a weight above 100, a weight below the
\* floor, and a priority label the map does not know
C15_Witness ==
  /\ jdJustLoaded
  /\ usingAISource
  /\ Len(jdKeywords) = 3
  /\ jdKeywords[1].importance = 1500 /\ jdKeywords[1].section = "preferred"
  /\ jdKeywords[2].importance = 400 /\ jdKeywords[2].section = "general"
  /\ jdKeywords[3].importance = 550 /\ jdKeywords[3].section = "general"
  /\ lastEvent.reply[1].body.requirements[1][3].priority = "nice-to-have"
  /\ jdKeywords # extractKeywords(jdDocumentText, DefaultLimit)

\* the step just taken is the return of requestSemanticKeywords in a JD upload
jdAnswered == lastEvent'.handler = "jd" /\ lastEvent'.reply # <<>>

\* the upload is refused: the message is set and nothing is loaded
jdRefused ==
  /\ lastEvent'.step = "failed"
  /\ errorMessage' = <<NoKeywordsMessage>>
  /\ UNCHANGED <<jdKeywords, jdFileName, jdDocumentText, resumeInsights,
                 interviewQuestions, usingAISource>>

\* C16: extractKeywords returns the empty list for an empty or whitespace-only
\* JD text, and handleJobDescriptionUpload treats an empty list as a failure:
\* it sets the error message and loads nothing, so jdKeywords, jdFileName,
\* jdDocumentText and resumeInsights keep their values, and no resume upload
\* ever holds a blank JD text or an empty list to be scored against
C16_EmptyListFails ==
  [][ /\ jdAnswered =>
           /\ extractKeywords("", DefaultLimit) = <<>>
           /\ isBlank(lastEvent'.upload[1].content) =>
                extractKeywords(lastEvent'.upload[1].content, DefaultLimit) = <<>>
           /\ requirementsOf(lastEvent'.upload[1].content, lastEvent'.reply[1]) = <<>>
                /\ extractKeywords(lastEvent'.upload[1].content, DefaultLimit) = <<>>
              => jdRefused
      /\ \A p \in pending' \ pending :
           p.handler = "resume" => p.captured # <<>> /\ ~isBlank(p.jdText) ]_vars

\* a whitespace-only JD has been refused while an earlier JD and a resume
\* result are on display
C16_Witness ==
  /\ lastEvent.handler = "jd" /\ lastEvent.step = "failed"
  /\ lastEvent.reply = <<NotSent>>
  /\ lastEvent.upload[1].content = " \n"
  /\ errorMessage = <<NoKeywordsMessage>>
  /\ jdKeywords # <<>>
  /\ jdFileName = "role.PDF"
  /\ resumeInsights # <<>>

\* the state of App, without what the model adds to it
appState ==
  <<jdKeywords, jdFileName, jdDocumentText, interviewQuestions, resumeInsights,
    processingJD, processingResume, usingAISource, errorMessage, pending>>

\* the step just taken is the call of handleResumeUpload
resumeCalled ==
  lastEvent'.handler = "resume" /\ lastEvent'.step \in {"started", "ignored"}

\* C17: right after handleReset the keyword list, the file name, the JD text
\* and the interview questions are empty, resumeInsights and errorMessage are
\* null and usingAISource is false; a call of handleResumeUpload in a state
\* without keywords returns at once and changes no state of App
C17_ResetClears ==
  [][ /\ lastEvent'.handler = "reset" =>
           /\ jdKeywords' = <<>> /\ jdFileName' = "" /\ jdDocumentText' = ""
           /\ interviewQuestions' = <<>> /\ resumeInsights' = <<>>
           /\ errorMessage' = <<>> /\ usingAISource' = FALSE
      /\ resumeCalled /\ jdKeywords = <<>> =>
           lastEvent'.step = "ignored" /\ UNCHANGED appState ]_vars

\* the reset has just cleared a loaded JD while a resume upload, started
\* against it, is still in flight
C17_Witness ==
  /\ lastEvent.handler = "reset"
  /\ jdKeywords = <<>>
  /\ interviewQuestions = <<>>
  /\ processingResume
  /\ \E p \in pending : p.handler = "resume" /\ p.captured # <<>>

\* the canonical keys a displayed result was scored for, each with the
\* importance it was given
scoredFor(insight) ==
  { <<m.canonical, m.importance>> :
      m \in Range(insight.matchedKeywords) \cup Range(insight.missingKeywords) }

\* the canonical keys of a keyword list, each with its importance
loadedFor(kws) == { <<k.canonical, k.importance>> : k \in Range(kws) }

\* C26: under every interleaving of JD uploads, resume uploads and resets, a
\* displayed resume result belongs to the loaded JD: resumeInsights is
\* non-null only if jdKeywords is non-empty, and the result was computed
\* against the keyword list that is loaded
C26_ResultBelongsToJd ==
  resumeInsights # <<>> =>
    /\ jdKeywords # <<>>
    /\ scoredFor(resumeInsights[1]) = loadedFor(jdKeywords)
    /\ Len(resumeInsights[1].matchedKeywords) + Len(resumeInsights[1].missingKeywords)
         = Len(jdKeywords)

\* the flag of a handler is up exactly while an invocation of it waits
flagTracks(flag, handler) == flag = (\E p \in pending : p.handler = handler)

\* C27: processingResume (resp. processingJD) is true whenever some resume
\* (resp. JD) upload has started and not yet finished, also when two uploads
\* overlap, and false once every started upload has finished
C27_FlagsTrackWork ==
  /\ flagTracks(processingResume, "resume")
  /\ flagTracks(processingJD, "jd")

\* a JD text has been scored against the list extracted from it
selfScored ==
  /\ phase = "calls"
  /\ analysis # NoAnalysis
  /\ jdKeywords # <<>>
  /\ resumeText = jdText
  /\ keywords = jdKeywords

\* C28: extraction and scoring agree on the same text: every keyword
\* returned by extractKeywords(T) has resumeHits >= 1 in
\* analyzeResume(T, extractKeywords(T)), so missingKeywords is empty when a
\* JD is scored against itself
C28_SelfScore ==
  selfScored =>
    /\ analysis.missingKeywords = <<>>
    /\ Len(analysis.matchedKeywords) = Len(jdKeywords)
    /\ \A i \in 1..Len(analysis.matchedKeywords) :
         analysis.matchedKeywords[i].resumeHits >= 1

\* the score analyzeResume gives to a list of matched keywords
scoreOfMatched(kws, matched) ==
  Min(finalScoreOf(coverageScoreOf(kws, matched), densityScoreOf(kws, matched),
                   breadthScoreOf(kws, matched)), 100)

\* the hit counts that are, keyword by keyword, at most those of `matched`
fewerHits(matched) ==
  IF matched = <<>> THEN {<<>>}
  ELSE { v \in [1..Len(matched) -> 0..maxOf(SeqMap(matched, LAMBDA m : m.resumeHits))] :
           \A i \in 1..Len(matched) : v[i] <= matched[i].resumeHits }

\* the matched keywords of a resume that has the hit counts v
matchedWith(matched, v) ==
  SeqFilter([i \in 1..Len(matched) |-> [matched[i] EXCEPT !.resumeHits = v[i]]],
            isMatched)

\* no resume with fewer hits on the same list has a larger score
monotoneInHits ==
  \A v \in fewerHits(analysis.matchedKeywords) :
    scoreOfMatched(keywords, matchedWith(analysis.matchedKeywords, v)) <= analysis.score

\* every keyword has at least max(jdOccurrences, 1) hits
fullHits ==
  /\ analysis.missingKeywords = <<>>
  /\ Len(analysis.matchedKeywords) = Len(keywords)
  /\ \A i \in 1..Len(analysis.matchedKeywords) :
       analysis.matchedKeywords[i].resumeHits
         >= Max(analysis.matchedKeywords[i].jdOccurrences, 1)

\* C29 as stated: the score is monotone in the hits, and it is 100 when every
\* keyword has resumeHits >= max(jdOccurrences, 1)
C29_AsStated ==
  phase = "resume-done" /\ analysis # NoAnalysis =>
    /\ monotoneInHits
    /\ fullHits => analysis.score = 100

\* C29: the score is monotone in the hits: for a fixed keyword list with
\* non-negative importances, a resume with at least the hits of another on
\* every keyword has at least its score; and the score is 100 when the list
\* is not empty, its importances do not sum to zero and every keyword has
\* resumeHits >= max(jdOccurrences, 1)
C29_MonotoneScore ==
  phase = "resume-done" /\ analysis # NoAnalysis =>
    /\ monotoneInHits
    /\ /\ fullHits
       /\ keywords # <<>>
       /\ sumOf(SeqMap(keywords, LAMBDA kw : kw.importance)) > 0
       => analysis.score = 100

\* a resume with more hits than the JD has occurrences on one keyword and
\* exactly as many on another scores 100, and a resume with fewer hits scores
\* strictly less
C29_Witness ==
  /\ phase = "resume-done" /\ analysis # NoAnalysis
  /\ Len(keywords) >= 2
  /\ fullHits
  /\ analysis.score = 100
  /\ \E i \in 1..Len(analysis.matchedKeywords) :
       analysis.matchedKeywords[i].resumeHits > analysis.matchedKeywords[i].jdOccurrences
         /\ analysis.matchedKeywords[i].jdOccurrences >= 1
  /\ \E v \in fewerHits(analysis.matchedKeywords) :
       /\ \E i \in 1..Len(v) : v[i] >= 1
       /\ scoreOfMatched(keywords, matchedWith(analysis.matchedKeywords, v)) < 100

\* the line matches the heading pattern of a tier
matchesHeadingOf(line, section) ==
  \E p \in 1..Len(HEADING_PATTERNS) :
    HEADING_PATTERNS[p].section = section /\ testAny(line, HEADING_PATTERNS[p].alternatives)

\* the tier the claim gives to a line
statedHeading(line) ==
  IF Len(line) > MaxHeadingLength THEN "none"
  ELSE IF matchesHeadingOf(line, "core") THEN "core"
  ELSE IF matchesHeadingOf(line, "responsibility") THEN "responsibility"
  ELSE IF matchesHeadingOf(line, "preferred") THEN "preferred"
  ELSE "none"

\* the lines with the tier the claim gives them, as (position, tier)
statedHeadings(lines) == { <<i, statedHeading(lines[i])>> : i \in 1..Len(lines) }

\* the positions of the lines that are no heading
statedBody(stated) == { p[1] : p \in { q \in stated : q[2] = "none" } }

\* a line without inline marker right below a heading line has its tier
tierBelowHeading(lines, stated, body, fragments) ==
  \A h \in stated :
    /\ h[2] # "none"
    /\ h[1] + 1 \in body
    /\ detectInlinePriority(lines[h[1] + 1]) = "none"
    => fragments[Cardinality({ b \in body : b <= h[1] + 1 })].section = h[2]

\* C30: a line of at most 80 characters that matches more than one heading
\* pattern gets the tier of the first matching pattern in the order core,
\* responsibility, preferred, and that tier is the one in force below it; a
\* line longer than 80 characters is never a heading.  The limit does not
\* enter the detection, so every text is looked at under the default limit.
C30_FirstPatternWins ==
  phase = "jd-done" /\ limit = DefaultLimit =>
    \A lines \in {contentLines(jdText)}, fragments \in {splitIntoFragments(jdText)} :
      \A stated \in {statedHeadings(lines)} :
        \A body \in {statedBody(stated)} :
          /\ \A h \in stated : detectHeadingSection(lines[h[1]]) = h[2]
          /\ Len(fragments) = Cardinality(body)
          /\ tierBelowHeading(lines, stated, body, fragments)

\* 'Preferred skills' puts Docker in the core tier, 'Responsibilities and
\* nice to have' puts Linux in that of the responsibilities, and the line of
\* 83 characters with 'day to day' and 'skills' is a fragment, not a heading
C30_Witness ==
  /\ phase = "jd-done"
  /\ jdText = MixedHeadingsText
  /\ limit = DefaultLimit
  /\ headingsMatched(contentLines(jdText)[1]) = {1, 3}
  /\ headingsMatched(contentLines(jdText)[3]) = {2, 3}
  /\ headingsMatched(LongLine) = {1, 2}
  /\ Len(LongLine) > MaxHeadingLength
  /\ [k \in 1..4 |-> splitIntoFragments(jdText)[k].section]
       = <<"core", "responsibility", "responsibility", "responsibility">>
  /\ splitIntoFragments(jdText)[3].content = LongLine
  /\ sectionsOf(jdKeywords, "docker") = {"core"}
  /\ sectionsOf(jdKeywords, "linux") = {"responsibility"}

-----------------------------------------------------------------------------
(* Properties of the semantic service, over SpecServer                     *)

\* the body the claim calls invalid for an endpoint
statedInvalid(endpoint, body) ==
  \/ body.kind # "object"
  \/ body.jdText.type # "string"
  \/ endpoint = "semantic-score" /\ body.resumeText.type # "string"
  \/ endpoint = "semantic-keywords" /\ Len(trim(body.jdText.value)) < MinJdLength

\* the status the claim gives to an answered request
statedStatus(a) ==
  IF ~openAiKey THEN 500
  ELSE IF statedInvalid(a.endpoint, a.body) THEN 400
  ELSE IF a.openAiCalls = 1 /\ structuredOf(a.reply[1]).threw THEN 502
  ELSE 200

\* OpenAI is called only with the key set and for a body that is valid
callAllowed(r) ==
  /\ r.openAiCalls <= 1
  /\ r.openAiCalls = 1 => openAiKey /\ ~statedInvalid(r.endpoint, r.body)

\* C25: each POST to /api/semantic-score or /api/semantic-keywords gets one
\* response: 500 when the API key is missing, otherwise 400 when the body is
\* invalid, otherwise 502 when the OpenAI call or the extraction of its text
\* output fails, otherwise 200 with the parsed JSON; OpenAI is called at
\* most once per request and only after the key and body checks pass
C25_ResponseOrder ==
  /\ \A r \in inFlight : callAllowed(r) /\ (r.pc = "openai" <=> r.openAiCalls = 1)
  /\ \A a \in Range(answered) :
       /\ a.sent = 1
       /\ callAllowed(a)
       /\ a.status = statedStatus(a)
       /\ a.status \in {500, 400} => a.openAiCalls = 0
       /\ a.status = 200 =>
            a.openAiCalls = 1 /\ a.text = structuredOf(a.reply[1]).text

====
